---- MODULE Spec2Model ----
(***************************************************************************)
(* Model of the observer_mcp tool layer: the tool_handler wrapper, the     *)
(* response envelope, the two backend clients' exception translation and   *)
(* the thirteen tool bodies as sequences of backend calls.                 *)
(***************************************************************************)
EXTENDS Integers, Sequences, FiniteSets, TLC

VARIABLES
    pc,          \* "idle" | "body" | "returned" | "raised" | "done" (pure-function specs: "input" | "applied")
    tool,        \* the tool operation being invoked
    inp,         \* the caller's arguments and the backend contents they meet
    step,        \* position in the tool body (index into Program)
    calls,       \* the backend calls issued so far in this invocation, in order
    start_time,  \* wrapper's start_time (base.py:34)
    body_start,  \* the body's own start_time (first statement of every tool)
    now,         \* the clock read by datetime.now()
    result,      \* the envelope the tool body returned to the wrapper
    raised,      \* the exception that left the tool body
    env,         \* the envelope the caller receives
    escaped,     \* an exception reached the caller
    data,        \* pure-function specifications: the backend data given to the computation
    out,         \* pure-function specifications: what the computation produced
    _memory_holder,  \* stress service: the module-level list (backend/main.py:19)
    requests     \* stress service: each HTTP request's endpoint, position and response

vars == <<pc, tool, inp, step, calls, start_time, body_start, now, result, raised,
          env, escaped, data, out, _memory_holder, requests>>

---------------------------------------------------------------------------
(* Bounds of the model *)

MaxNamespaces == 2
MaxNodes == 1
max_events == 2
max_log_lines == 1

---------------------------------------------------------------------------
(* Python values *)

None == <<>>
Some(x) == <<x>>

EmptyDict == [k \in {} |-> 0]
Echo(keys) == [k \in keys |-> "echo"]

Min(a, b) == IF a <= b THEN a ELSE b
Max(a, b) == IF a >= b THEN a ELSE b

---------------------------------------------------------------------------
(* Exceptions *)

NoExc == [type |-> "none", msg |-> "none", origin |-> "none"]
Exc(type, msg, origin) == [type |-> type, msg |-> msg, origin |-> origin]

\* class hierarchy: kubernetes.py:17-26, prometheus.py:16-25; everything else derives from Exception
Bases(cls) ==
    CASE cls = "K8sNotFoundError" -> {"K8sNotFoundError", "K8sClientError", "Exception"}
      [] cls = "K8sClientError" -> {"K8sClientError", "Exception"}
      [] cls = "PrometheusQueryError" -> {"PrometheusQueryError", "PrometheusClientError", "Exception"}
      [] cls = "PrometheusClientError" -> {"PrometheusClientError", "Exception"}
      [] OTHER -> {cls, "Exception"}

isinstance(e, cls) == cls \in Bases(e.type)

Ok == [ok |-> TRUE, exc |-> NoExc]
Fail(type, msg, origin) == [ok |-> FALSE, exc |-> Exc(type, msg, origin)]

---------------------------------------------------------------------------
(* Cluster client: what the kubernetes library does at a call, and what    *)
(* K8sClient makes of it.                                                  *)

K8sRaw ==
    {[kind |-> "ok", status |-> 200, body |-> "none", errorType |-> "none"]}
    \cup {[kind |-> "ApiException", status |-> s, body |-> "none", errorType |-> "none"] : s \in {403, 404, 500}}
    \cup {[kind |-> "MaxRetryError", status |-> 0, body |-> "none", errorType |-> "none"]}

\* K8sClient.__init__ -> _load_config: any failure becomes K8sClientError
_load_config(ok) ==
    IF ok THEN Ok ELSE Fail("K8sClientError", "Failed to load Kubernetes config", "k8s")

get_deployment(raw) ==
    IF raw.kind = "ok" THEN Ok
    ELSE IF raw.kind = "ApiException"
         THEN IF raw.status = 404
              THEN Fail("K8sNotFoundError", "Deployment not found in namespace", "k8s")
              ELSE Fail("K8sClientError", "Failed to get deployment", "k8s")
         ELSE Fail(raw.kind, "transport", "k8s")

get_pod(raw) ==
    IF raw.kind = "ok" THEN Ok
    ELSE IF raw.kind = "ApiException"
         THEN IF raw.status = 404
              THEN Fail("K8sNotFoundError", "Pod not found in namespace", "k8s")
              ELSE Fail("K8sClientError", "Failed to get pod", "k8s")
         ELSE Fail(raw.kind, "transport", "k8s")

\* faulty variant: the log read does not tell 404 from the other API failures
get_pod_logs_ignoring_404(raw) ==
    IF raw.kind = "ok" THEN Ok
    ELSE IF raw.kind = "ApiException"
         THEN Fail("K8sClientError", "Failed to get pod logs", "k8s")
         ELSE Fail(raw.kind, "transport", "k8s")

get_pod_logs(raw) ==
    IF raw.kind = "ok" THEN Ok
    ELSE IF raw.kind = "ApiException"
         THEN IF raw.status = 404
              THEN Fail("K8sNotFoundError", "Pod not found in namespace", "k8s")
              ELSE Fail("K8sClientError", "Failed to get pod logs", "k8s")
         ELSE Fail(raw.kind, "transport", "k8s")

\* list_deployments, list_replica_sets, list_pods, list_events, list_nodes,
\* list_namespaces, list_services, list_configmaps, list_secrets
list_resources(raw) ==
    IF raw.kind = "ok" THEN Ok
    ELSE IF raw.kind = "ApiException"
         THEN Fail("K8sClientError", "Failed to list", "k8s")
         ELSE Fail(raw.kind, "transport", "k8s")

GetOps == {"get_deployment", "get_pod", "get_pod_logs"}

K8sClient(op, raw) ==
    CASE op = "get_deployment" -> get_deployment(raw)
      [] op = "get_pod" -> get_pod(raw)
      [] op = "get_pod_logs" -> get_pod_logs(raw)
      [] OTHER -> list_resources(raw)

---------------------------------------------------------------------------
(* Metrics client *)

PromResponse(status, body, errorType) ==
    [kind |-> "response", status |-> status, body |-> body, errorType |-> errorType]

PromRaw ==
    { PromResponse(200, "success", "none"),
      PromResponse(200, "error", "bad_data"),
      PromResponse(400, "error", "bad_data"),
      PromResponse(422, "error", "execution"),
      PromResponse(503, "error", "unavailable"),
      PromResponse(200, "not_json", "none"),
      [kind |-> "ConnectError", status |-> 0, body |-> "none", errorType |-> "none"] }

\* the backend rejected the query expression (syntax or semantics)
Rejected(raw) == raw.kind = "response" /\ raw.errorType \in {"bad_data", "execution"}

_make_request(raw) ==
    IF raw.kind = "ConnectError"
    THEN Fail("PrometheusClientError", "Failed to connect to Prometheus", "prom")
    ELSE IF raw.status >= 400
    THEN Fail("PrometheusClientError", "Prometheus API error", "prom")
    ELSE IF raw.body = "not_json"
    THEN Fail("PrometheusClientError", "Unexpected error", "prom")
    ELSE IF raw.body # "success"
    THEN Fail("PrometheusQueryError", "Query failed", "prom")
    ELSE Ok

---------------------------------------------------------------------------
(* Response envelope *)

NoEnv == [status |-> "none", result |-> None, error |-> None, warnings |-> <<>>,
          metadata |-> EmptyDict]

ToolResponse(status, res, warnings, metadata) ==
    [status |-> status, result |-> res, error |-> None, warnings |-> warnings,
     metadata |-> metadata]

ToolResponse_success(res, metadata) ==
    [status |-> "success", result |-> Some(res), error |-> None, warnings |-> <<>>,
     metadata |-> metadata]

ToolResponse_partial(res, warnings, metadata) ==
    [status |-> "partial", result |-> Some(res), error |-> None, warnings |-> warnings,
     metadata |-> metadata]

ToolResponse_error(error_message, error_type, metadata) ==
    [status |-> "error", result |-> None, error |-> Some(error_message),
     warnings |-> <<>>,
     metadata |-> IF error_type # "" THEN ("error_type" :> error_type) @@ metadata
                  ELSE metadata]

add_execution_metadata(metadata, start, end) ==
    ("execution_time_ms" :> (end - start)) @@ ("timestamp" :> end) @@ metadata

---------------------------------------------------------------------------
(* tool_handler: the translation point (base.py:47-76) *)

\* faulty variant: the wrapper without its last, catch-all clause
ExceptClauses_without_catch_all ==
    << [cls |-> "K8sNotFoundError", error_type |-> "NotFoundError"],
       [cls |-> "K8sClientError", error_type |-> "KubernetesError"],
       [cls |-> "PrometheusQueryError", error_type |-> "PrometheusQueryError"],
       [cls |-> "PrometheusClientError", error_type |-> "PrometheusError"] >>

ExceptClauses ==
    << [cls |-> "K8sNotFoundError", error_type |-> "NotFoundError"],
       [cls |-> "K8sClientError", error_type |-> "KubernetesError"],
       [cls |-> "PrometheusQueryError", error_type |-> "PrometheusQueryError"],
       [cls |-> "PrometheusClientError", error_type |-> "PrometheusError"],
       [cls |-> "Exception", error_type |-> "type(e).__name__"] >>

\* index of the first except clause that matches e, 0 when none does
FirstMatch(e) ==
    LET hits == {j \in DOMAIN ExceptClauses : isinstance(e, ExceptClauses[j].cls)}
    IN IF hits = {} THEN 0 ELSE CHOOSE j \in hits : \A k \in hits : j <= k

\* faulty variant: the catch-all clause tags every failure with one fixed kind
tool_handler_except_fixed_kind(e, start, end) ==
    LET c == ExceptClauses[FirstMatch(e)]
    IN IF c.cls = "Exception"
       THEN ToolResponse_error(<<"Unexpected error: ", e.msg>>, "UnexpectedError",
                               add_execution_metadata(EmptyDict, start, end))
       ELSE ToolResponse_error(<<e.msg>>, c.error_type,
                               add_execution_metadata(EmptyDict, start, end))

tool_handler_except(e, start, end) ==
    LET c == ExceptClauses[FirstMatch(e)]
    IN IF c.cls = "Exception"
       THEN ToolResponse_error(<<"Unexpected error: ", e.msg>>, e.type,
                               add_execution_metadata(EmptyDict, start, end))
       ELSE ToolResponse_error(<<e.msg>>, c.error_type,
                               add_execution_metadata(EmptyDict, start, end))

\* faulty variant: the normal return passes the body's envelope through untouched
tool_handler_return_without_injection(res, start, end) == res

\* normal return (base.py:37-45)
tool_handler_return(res, start, end) ==
    IF "execution_time_ms" \notin DOMAIN res.metadata
    THEN [res EXCEPT !.metadata = add_execution_metadata(res.metadata, start, end)]
    ELSE res

---------------------------------------------------------------------------
(* base.py helpers *)

Digits == {"0", "1", "2", "3", "4", "5", "6", "7", "8", "9"}

DigitVal(c) ==
    CASE c = "0" -> 0 [] c = "1" -> 1 [] c = "2" -> 2 [] c = "3" -> 3 [] c = "4" -> 4
      [] c = "5" -> 5 [] c = "6" -> 6 [] c = "7" -> 7 [] c = "8" -> 8 [] c = "9" -> 9

RECURSIVE DigitsValue(_)
DigitsValue(s) ==
    IF s = <<>> THEN 0
    ELSE 10 * DigitsValue(SubSeq(s, 1, Len(s) - 1)) + DigitVal(s[Len(s)])

RECURSIVE lstrip(_)
lstrip(s) == IF s # <<>> /\ s[1] = " " THEN lstrip(Tail(s)) ELSE s

RECURSIVE rstrip(_)
rstrip(s) ==
    IF s # <<>> /\ s[Len(s)] = " " THEN rstrip(SubSeq(s, 1, Len(s) - 1)) ELSE s

strip(s) == rstrip(lstrip(s))

LowerChar(c) ==
    CASE c = "S" -> "s" [] c = "M" -> "m" [] c = "H" -> "h" [] c = "D" -> "d"
      [] c = "X" -> "x" [] OTHER -> c

lower(s) == [j \in 1..Len(s) |-> LowerChar(s[j])]

\* Python int(str): surrounding whitespace and one leading sign are accepted
PyInt(s) ==
    LET t == strip(s)
        signed == t # <<>> /\ t[1] \in {"+", "-"}
        digits == IF signed THEN Tail(t) ELSE t
        sign == IF signed /\ t[1] = "-" THEN -1 ELSE 1
    IN IF digits # <<>> /\ \A j \in 1..Len(digits) : digits[j] \in Digits
       THEN [ok |-> TRUE, value |-> sign * DigitsValue(digits)]
       ELSE [ok |-> FALSE, value |-> 0]

\* faulty variant: minutes are converted as hours
UnitSeconds_minutes_as_hours(u) ==
    CASE u = "s" -> 1 [] u = "m" -> 3600 [] u = "h" -> 3600 [] u = "d" -> 86400

UnitSeconds(u) ==
    CASE u = "s" -> 1 [] u = "m" -> 60 [] u = "h" -> 3600 [] u = "d" -> 86400

parse_duration(duration) ==
    LET d == lower(strip(duration))
        unit == IF d = <<>> THEN "" ELSE d[Len(d)]
        n == PyInt(SubSeq(d, 1, Len(d) - 1))
    IN IF unit \in {"s", "m", "h", "d"}
       THEN IF n.ok
            THEN [ok |-> TRUE, value |-> n.value * UnitSeconds(unit), exc |-> NoExc]
            ELSE [ok |-> FALSE, value |-> 0,
                  exc |-> Exc("ValueError", "invalid literal for int()", "body")]
       ELSE [ok |-> FALSE, value |-> 0,
             exc |-> Exc("ValueError", "Invalid duration format", "body")]

\* lines[-k:] of a Python list
PySuffix(lines, k) ==
    IF k > 0 THEN SubSeq(lines, Len(lines) - Min(k, Len(lines)) + 1, Len(lines))
    ELSE SubSeq(lines, Min(-k, Len(lines)) + 1, Len(lines))

\* logs is the text as the list of its lines (logs.split("\n"), never empty)
truncate_logs(logs, max_lines) ==
    IF Len(logs) <= max_lines
    THEN [logs |-> logs, truncated |-> FALSE]
    ELSE [logs |-> PySuffix(logs, max_lines), truncated |-> TRUE]

---------------------------------------------------------------------------
(* The tool operations (tools/__init__.py) and their inputs *)

Tools ==
    {"get_deployment_info", "get_namespace_summary", "get_cluster_capacity",
     "get_pod_status", "get_recent_events", "get_container_logs",
     "get_current_resource_usage", "query_metrics_timeseries", "get_resource_trends",
     "analyze_restart_patterns", "get_deployment_history", "compare_period_metrics",
     "get_anomaly_report"}

MetricTypes == {"cpu", "memory", "network_rx", "network_tx"}

Durations == {<<"1", "h">>, <<"1", "x">>, <<"x", "h">>}

MaxLogText == 3
MaxTail == 2

\* caller arguments (given or not, and their values) and what the backends hold
Default ==
    [namespace |-> TRUE, deployment_name |-> FALSE, container_name |-> TRUE,
     since |-> FALSE, duration |-> <<"1", "h">>, metric |-> "cpu", tail_lines |-> 1,
     n_namespaces |-> 1, n_nodes |-> 1, n_containers |-> 1, n_events |-> 0,
     log_lines |-> 1, baseline_n |-> 1, compare_n |-> 1, n_samples |-> 2]

ToolInputs(t) ==
    CASE t = "get_deployment_info" ->
           {[Default EXCEPT !.namespace = a, !.deployment_name = b] : a, b \in BOOLEAN}
      [] t = "get_namespace_summary" ->
           {[Default EXCEPT !.namespace = a, !.n_namespaces = n] :
               a \in BOOLEAN, n \in 0..MaxNamespaces}
      [] t = "get_cluster_capacity" ->
           {[Default EXCEPT !.n_nodes = n] : n \in 0..MaxNodes}
      [] t = "get_pod_status" ->
           {[Default EXCEPT !.deployment_name = b] : b \in BOOLEAN}
      [] t = "get_recent_events" ->
           {[Default EXCEPT !.duration = d, !.n_events = n] :
               d \in Durations, n \in 0..(max_events + 1)}
      [] t = "get_container_logs" ->
           {[Default EXCEPT !.container_name = c, !.since = s, !.duration = d,
                            !.n_containers = k, !.tail_lines = tl, !.log_lines = n] :
               c \in BOOLEAN, s \in BOOLEAN, d \in Durations, k \in 1..2,
               tl \in 1..MaxTail, n \in 1..MaxLogText}
      [] t = "get_current_resource_usage" ->
           {[Default EXCEPT !.deployment_name = b] : b \in BOOLEAN}
      [] t = "query_metrics_timeseries" ->
           {[Default EXCEPT !.duration = d, !.n_samples = n] : d \in Durations, n \in 0..1}
      [] t = "get_resource_trends" ->
           {[Default EXCEPT !.metric = m, !.duration = d, !.n_samples = n] :
               m \in MetricTypes \cup {"disk"}, d \in Durations, n \in 0..2}
      [] t = "analyze_restart_patterns" ->
           {[Default EXCEPT !.deployment_name = b, !.duration = d] :
               b \in BOOLEAN, d \in Durations}
      [] t = "get_deployment_history" -> {Default}
      [] t = "compare_period_metrics" ->
           {[Default EXCEPT !.metric = m, !.baseline_n = a, !.compare_n = b] :
               m \in MetricTypes \cup {"disk"}, a \in 0..1, b \in 0..1}
      [] t = "get_anomaly_report" ->
           {[Default EXCEPT !.namespace = a, !.duration = d, !.n_namespaces = n] :
               a \in BOOLEAN, d \in Durations, n \in 0..MaxNamespaces}

---------------------------------------------------------------------------
(* Tool bodies as the sequence of steps each executes, in source order *)

St(kind, op, target) == [kind |-> kind, op |-> op, target |-> target, swallow |-> FALSE]
K8s(op, target) == St("k8s", op, target)
\* faulty variant: every metrics query failure is caught and the body goes on
Prom_continuing_after_failure(op, target) ==
    [kind |-> "prom", op |-> op, target |-> target, swallow |-> TRUE]
Prom(op, target) == St("prom", op, target)
PromSwallowed(op, target) ==
    [kind |-> "prom", op |-> op, target |-> target, swallow |-> TRUE]

WithK8s == <<St("settings", "get_settings", 0), St("k8s_init", "K8sClient", 0)>>
WithProm == <<St("settings", "get_settings", 0), St("prom_init", "PrometheusClient", 0)>>
Compute == <<St("compute", "return", 0)>>

\* the steps bodies[1] ... bodies[n], each of k steps, one after the other
Flatten(n, k, bodies) ==
    [j \in 1..(n * k) |-> bodies[((j - 1) \div k) + 1][((j - 1) % k) + 1]]

NsCount(i) == IF i.namespace THEN 1 ELSE i.n_namespaces

\* k8s.get_pods_for_deployment (kubernetes.py:464-467) or k8s.list_pods
PodsFor(i) ==
    IF i.deployment_name
    THEN <<K8s("get_deployment", 0), K8s("list_pods", 0)>>
    ELSE <<K8s("list_pods", 0)>>

SummaryOfNamespace(ns) ==
    <<K8s("list_pods", ns), K8s("list_deployments", ns), K8s("list_services", ns),
      K8s("list_configmaps", ns), K8s("list_secrets", ns), K8s("list_namespaces", ns)>>

PodsOnNode(node) == <<K8s("list_pods", node)>>

AnomaliesOfNamespace(ns) == <<K8s("list_pods", ns), PromSwallowed("query", ns)>>

Program(t, i) ==
    CASE t = "get_deployment_info" ->
           WithK8s
           \o (IF i.deployment_name /\ i.namespace
               THEN <<K8s("get_deployment", 0)>> ELSE <<K8s("list_deployments", 0)>>)
           \o Compute
      [] t = "get_namespace_summary" ->
           WithK8s
           \o (IF i.namespace THEN <<>> ELSE <<K8s("list_namespaces", 0)>>)
           \o Flatten(NsCount(i), 6, [ns \in 1..NsCount(i) |-> SummaryOfNamespace(ns)])
           \o Compute
      [] t = "get_cluster_capacity" ->
           WithK8s \o <<K8s("list_nodes", 0)>> \o Flatten(i.n_nodes, 1, [node \in 1..i.n_nodes |-> PodsOnNode(node)])
           \o Compute
      [] t = "get_pod_status" -> WithK8s \o PodsFor(i) \o Compute
      [] t = "get_recent_events" ->
           WithK8s \o <<St("duration", "parse_duration", 0), K8s("list_events", 0)>>
           \o Compute
      [] t = "get_container_logs" ->
           WithK8s
           \o (IF i.since THEN <<St("duration", "parse_duration", 0)>> ELSE <<>>)
           \o (IF i.container_name THEN <<>>
               ELSE <<K8s("get_pod", 0), St("resolve", "container_name", 0)>>)
           \* target: the container asked for, 0 the caller's container_name,
           \* 1 the name of the pod's first container
           \o <<K8s("get_pod_logs", IF i.container_name THEN 0 ELSE 1)>>
           \o Compute
      [] t = "get_current_resource_usage" ->
           WithProm
           \o <<Prom("query", 1), Prom("query", 2), Prom("query", 3), Prom("query", 4),
                Prom("query", 5), Prom("query", 6)>>
           \o Compute
      [] t = "query_metrics_timeseries" ->
           WithProm \o <<St("duration", "parse_duration", 0), Prom("query_range", 1)>>
           \o Compute
      [] t = "get_resource_trends" ->
           WithProm
           \o <<St("validate", "metric_type", 0), St("duration", "parse_duration", 0),
                Prom("query_range", 1)>>
           \o Compute
      [] t = "analyze_restart_patterns" ->
           WithK8s \o PodsFor(i) \o <<St("duration", "parse_duration", 0)>> \o Compute
      [] t = "get_deployment_history" ->
           WithK8s \o <<K8s("get_deployment", 0), K8s("list_replica_sets", 0)>> \o Compute
      [] t = "compare_period_metrics" ->
           WithProm
           \o <<St("validate", "metric", 0), Prom("query_range", 1), Prom("query_range", 2)>>
           \o Compute
      [] t = "get_anomaly_report" ->
           WithK8s
           \o <<St("prom_init", "PrometheusClient", 0), St("duration", "parse_duration", 0)>>
           \o (IF i.namespace THEN <<>> ELSE <<K8s("list_namespaces", 0)>>)
           \o Flatten(NsCount(i), 2, [ns \in 1..NsCount(i) |-> AnomaliesOfNamespace(ns)])
           \o Compute

---------------------------------------------------------------------------
(* What each tool body returns once its backend calls have succeeded *)

LogText(n) == [j \in 1..n |-> j]

\* [c.name for c in pod.spec.containers] of a pod with n containers
ContainerNames(n) == SubSeq(<<"app", "sidecar">>, 1, n)

\* faulty variant: a truncated event list is reported as a success
get_recent_events_return_always_success(i, start, end) ==
    LET truncated == i.n_events > max_events
        shown == Min(i.n_events, max_events)
    IN ToolResponse("success",
                    Some([total_count |-> shown, truncated |-> truncated]),
                    IF truncated THEN <<"Results truncated">> ELSE <<>>,
                    add_execution_metadata(
                        Echo({"namespace", "severity", "time_window"}), start, end))

get_recent_events_return(i, start, end) ==
    LET truncated == i.n_events > max_events
        shown == Min(i.n_events, max_events)
    IN ToolResponse(IF truncated THEN "partial" ELSE "success",
                    Some([total_count |-> shown, truncated |-> truncated]),
                    IF truncated THEN <<"Results truncated">> ELSE <<>>,
                    add_execution_metadata(
                        Echo({"namespace", "severity", "time_window"}), start, end))

get_container_logs_return(i, start, end) ==
    LET max_lines == Min(i.tail_lines, max_log_lines * 5)
        t == truncate_logs(LogText(i.log_lines), max_lines)
    IN ToolResponse(IF t.truncated THEN "partial" ELSE "success",
                    Some([logs |-> t.logs, line_count |-> Len(t.logs),
                          truncated |-> t.truncated,
                          container_name |-> IF i.container_name THEN "given"
                                             ELSE ContainerNames(i.n_containers)[1]]),
                    IF t.truncated THEN <<"Logs truncated">> ELSE <<>>,
                    add_execution_metadata(
                        Echo({"namespace", "pod_name", "container_name", "tail_lines",
                              "since", "previous"}), start, end))

query_metrics_timeseries_return(i, start, end) ==
    LET results == i.n_samples
    IN ToolResponse(IF results > 0 THEN "success" ELSE "partial",
                    Some([series_count |-> results]),
                    IF results = 0 THEN <<"Query returned no results">> ELSE <<>>,
                    add_execution_metadata(Echo({"time_range", "step"}), start, end))

get_resource_trends_return(i, start, end) ==
    IF i.n_samples = 0
    THEN ToolResponse_partial([trend |-> None], <<"No metric data found">>,
             add_execution_metadata(
                 Echo({"namespace", "deployment_name", "metric_type"}), start, end))
    ELSE IF i.n_samples < 2
    THEN ToolResponse_partial([trend |-> None], <<"Need at least 2 data points">>,
             add_execution_metadata(EmptyDict, start, end))
    ELSE ToolResponse_success([trend |-> Some("trend")],
             add_execution_metadata(
                 Echo({"namespace", "deployment_name", "metric_type", "period"}),
                 start, end))

\* faulty variant: a comparison period without data is reported as an error
compare_period_metrics_return_error_on_no_data(i, start, end) ==
    IF i.baseline_n = 0 \/ i.compare_n = 0
    THEN ToolResponse_error(<<"One or both periods have no data.">>, "NoDataError",
             add_execution_metadata(EmptyDict, start, end))
    ELSE ToolResponse_success([comparison |-> Some("comparison")],
             add_execution_metadata(
                 Echo({"namespace", "deployment_name", "metric", "baseline_period",
                       "compare_period"}), start, end))

compare_period_metrics_return(i, start, end) ==
    IF i.baseline_n = 0 \/ i.compare_n = 0
    THEN ToolResponse_partial([comparison |-> None],
             <<"One or both periods have no data.">>,
             add_execution_metadata(EmptyDict, start, end))
    ELSE ToolResponse_success([comparison |-> Some("comparison")],
             add_execution_metadata(
                 Echo({"namespace", "deployment_name", "metric", "baseline_period",
                       "compare_period"}), start, end))

\* the metadata each always-success tool echoes
EchoedKeys(t) ==
    CASE t = "get_deployment_info" -> {"namespace", "deployment_name"}
      [] t = "get_namespace_summary" -> {"namespace"}
      [] t = "get_cluster_capacity" -> {"node_selector"}
      [] t = "get_pod_status" -> {"namespace", "selector", "deployment_name"}
      [] t = "get_current_resource_usage" -> {"namespace", "deployment_name"}
      [] t = "analyze_restart_patterns" -> {"namespace", "deployment_name", "lookback_period"}
      [] t = "get_deployment_history" -> {"namespace", "deployment_name", "lookback_days"}
      [] t = "get_anomaly_report" -> {"namespace", "lookback_period"}

success_return(t, start, end) ==
    ToolResponse_success([payload |-> t],
                         add_execution_metadata(Echo(EchoedKeys(t)), start, end))

ToolReturn(t, i, start, end) ==
    CASE t = "get_recent_events" -> get_recent_events_return(i, start, end)
      [] t = "get_container_logs" -> get_container_logs_return(i, start, end)
      [] t = "query_metrics_timeseries" -> query_metrics_timeseries_return(i, start, end)
      [] t = "get_resource_trends" -> get_resource_trends_return(i, start, end)
      [] t = "compare_period_metrics" -> compare_period_metrics_return(i, start, end)
      [] OTHER -> success_return(t, start, end)

\* early returns of an error envelope built without execution metadata
invalid_metric_return == ToolResponse_error(<<"Invalid metric">>, "ValidationError", EmptyDict)

multiple_containers_return(i) ==
    ToolResponse_error(<<"Pod has multiple containers: ">>
                           \o ContainerNames(i.n_containers)
                           \o <<". Please specify container_name.">>,
                       "MultipleContainersError", EmptyDict)

\* exceptions the post-processing of backend data raises on values the backend can hold
BodyFaults(t) ==
    CASE t = "get_cluster_capacity" -> {"ValueError", "AttributeError"}
      [] t = "get_deployment_history" -> {"ValueError"}
      [] OTHER -> {}

---------------------------------------------------------------------------
(* State machine of one invocation through the wrapper *)

Init ==
    /\ pc = "idle"
    /\ tool = "none"
    /\ inp = Default
    /\ step = 0
    /\ calls = <<>>
    /\ start_time = 0
    /\ body_start = 0
    /\ now = 0
    /\ result = NoEnv
    /\ raised = NoExc
    /\ env = NoEnv
    /\ escaped = FALSE
    /\ data = <<>>
    /\ out = <<>>
    /\ _memory_holder = <<>>
    /\ requests = <<>>

CurStep == Program(tool, inp)[step]

InBody(kind) ==
    /\ pc = "body"
    /\ step <= Len(Program(tool, inp))
    /\ CurStep.kind = kind

Advance == pc' = pc /\ step' = step + 1 /\ raised' = raised /\ result' = result
RaiseOut(e) == pc' = "raised" /\ raised' = e /\ step' = step /\ result' = result
ReturnOut(r) == pc' = "returned" /\ result' = r /\ step' = step /\ raised' = raised

\* wrapper entered: start_time = datetime.now() (base.py:34), then func(*args, **kwargs)
Invoke ==
    /\ pc = "idle"
    /\ \E t \in Tools : \E i \in ToolInputs(t) : tool' = t /\ inp' = i
    /\ pc' = "body"
    /\ step' = 1
    /\ calls' = <<>>
    /\ start_time' = now
    /\ now' = now + 1
    /\ UNCHANGED <<_memory_holder, requests, body_start, result, raised, env, escaped, data, out>>

\* start_time = datetime.now(); settings = settings or get_settings()
LoadSettings ==
    /\ InBody("settings")
    /\ body_start' = now
    /\ now' = now + 1
    /\ \E ok \in BOOLEAN :
         IF ok THEN Advance
         ELSE RaiseOut(Exc("ValidationError", "invalid settings", "config"))
    /\ UNCHANGED <<_memory_holder, requests, tool, inp, calls, start_time, env, escaped, data, out>>

\* k8s = K8sClient(settings)
K8sInit ==
    /\ InBody("k8s_init")
    /\ now' = now + 1
    /\ \E ok \in BOOLEAN :
         LET r == _load_config(ok) IN IF r.ok THEN Advance ELSE RaiseOut(r.exc)
    /\ UNCHANGED <<_memory_holder, requests, tool, inp, calls, start_time, body_start, env, escaped, data, out>>

\* prom = PrometheusClient(settings)
PromInit ==
    /\ InBody("prom_init")
    /\ now' = now + 1
    /\ Advance
    /\ UNCHANGED <<_memory_holder, requests, tool, inp, calls, start_time, body_start, env, escaped, data, out>>

\* faulty variant: the metric type is not checked before the queries
ValidateMetric_accepting_any ==
    /\ InBody("validate")
    /\ now' = now + 1
    /\ Advance
    /\ UNCHANGED <<_memory_holder, requests, tool, inp, calls, start_time, body_start, env, escaped, data, out>>

ValidateMetric ==
    /\ InBody("validate")
    /\ now' = now + 1
    /\ IF inp.metric \in MetricTypes THEN Advance ELSE ReturnOut(invalid_metric_return)
    /\ UNCHANGED <<_memory_holder, requests, tool, inp, calls, start_time, body_start, env, escaped, data, out>>

ParseDuration ==
    /\ InBody("duration")
    /\ now' = now + 1
    /\ LET r == parse_duration(inp.duration) IN IF r.ok THEN Advance ELSE RaiseOut(r.exc)
    /\ UNCHANGED <<_memory_holder, requests, tool, inp, calls, start_time, body_start, env, escaped, data, out>>

\* faulty variant: the first container is taken however many the pod has
ResolveContainer_taking_first ==
    /\ InBody("resolve")
    /\ now' = now + 1
    /\ Advance
    /\ UNCHANGED <<_memory_holder, requests, tool, inp, calls, start_time, body_start, env, escaped, data, out>>

ResolveContainer ==
    /\ InBody("resolve")
    /\ now' = now + 1
    /\ IF inp.n_containers > 1 THEN ReturnOut(multiple_containers_return(inp)) ELSE Advance
    /\ UNCHANGED <<_memory_holder, requests, tool, inp, calls, start_time, body_start, env, escaped, data, out>>

Call(client, raw, failed) ==
    [client |-> client, op |-> CurStep.op, target |-> CurStep.target, raw |-> raw,
     failed |-> failed]

K8sCall ==
    /\ InBody("k8s")
    /\ now' = now + 1
    /\ \E raw \in K8sRaw :
         LET r == K8sClient(CurStep.op, raw)
         IN /\ calls' = Append(calls, Call("k8s", raw, ~r.ok))
            /\ IF r.ok THEN Advance ELSE RaiseOut(r.exc)
    /\ UNCHANGED <<_memory_holder, requests, tool, inp, start_time, body_start, env, escaped, data, out>>

\* prom.query / prom.query_range; get_anomaly_report wraps its query in
\* try/except Exception: pass (analysis.py:592-636)
PromCall ==
    /\ InBody("prom")
    /\ now' = now + 1
    /\ \E raw \in PromRaw :
         LET r == _make_request(raw)
         IN /\ calls' = Append(calls, Call("prom", raw, ~r.ok))
            /\ IF r.ok \/ CurStep.swallow THEN Advance ELSE RaiseOut(r.exc)
    /\ UNCHANGED <<_memory_holder, requests, tool, inp, start_time, body_start, env, escaped, data, out>>

\* post-processing of the backend data and construction of the envelope
ComputeReturn ==
    /\ InBody("compute")
    /\ now' = now + 1
    /\ \E fault \in BodyFaults(tool) \cup {"none"} :
         IF fault = "none"
         THEN ReturnOut(ToolReturn(tool, inp, body_start, now))
         ELSE RaiseOut(Exc(fault, "malformed backend data", "body"))
    /\ UNCHANGED <<_memory_holder, requests, tool, inp, calls, start_time, body_start, env, escaped, data, out>>

\* base.py:39-45
WrapperReturn ==
    /\ pc = "returned"
    /\ env' = tool_handler_return(result, start_time, now)
    /\ escaped' = FALSE
    /\ pc' = "done"
    /\ UNCHANGED <<_memory_holder, requests, tool, inp, step, calls, start_time, body_start, now, result, raised,
                   data, out>>

\* base.py:47-76
WrapperExcept ==
    /\ pc = "raised"
    /\ IF FirstMatch(raised) = 0
       THEN env' = NoEnv /\ escaped' = TRUE
       ELSE env' = tool_handler_except(raised, start_time, now) /\ escaped' = FALSE
    /\ pc' = "done"
    /\ UNCHANGED <<_memory_holder, requests, tool, inp, step, calls, start_time, body_start, now, result, raised,
                   data, out>>

\* the caller has its answer; nothing is kept between invocations
Finish ==
    /\ pc = "done"
    /\ pc' = "idle"
    /\ tool' = "none"
    /\ inp' = Default
    /\ step' = 0
    /\ calls' = <<>>
    /\ start_time' = 0
    /\ body_start' = 0
    /\ now' = 0
    /\ result' = NoEnv
    /\ raised' = NoExc
    /\ env' = NoEnv
    /\ escaped' = FALSE
    /\ UNCHANGED <<_memory_holder, requests, data, out>>

Next ==
    \/ Invoke
    \/ LoadSettings
    \/ K8sInit
    \/ PromInit
    \/ ValidateMetric
    \/ ParseDuration
    \/ ResolveContainer
    \/ K8sCall
    \/ PromCall
    \/ ComputeReturn
    \/ WrapperReturn
    \/ WrapperExcept
    \/ Finish

Spec == Init /\ [][Next]_vars

---------------------------------------------------------------------------
(* get_current_resource_usage: the per-pod usage records (metrics.py:74-148) *)

Pods == {"pod-a", "pod-b"}
MaxQuantity == 1

Quantities == {None} \cup {Some(q) : q \in 0..MaxQuantity}

\* per query, the value the backend reports for each pod (None: no row for the pod)
UsageData ==
    [cpu_results : [Pods -> Quantities], memory_results : [Pods -> Quantities],
     cpu_limits : [Pods -> Quantities], memory_limits : [Pods -> Quantities]]

\* dict.get(pod) on a lookup built by build_lookup; dict.get(key, default)
Lookup(rows, pod) == rows[pod]
GetOr(opt, default) == IF opt = None THEN default ELSE opt[1]

\* Python truthiness of an optional number: None and 0 are falsy
Truthy(opt) == opt # None /\ opt[1] # 0

\* round(a / b) to the nearest integer, ties to even
RoundHalfEven(a, b) ==
    LET q == a \div b
        r == a % b
    IN IF 2 * r < b THEN q
       ELSE IF 2 * r > b THEN q + 1
       ELSE IF q % 2 = 0 THEN q ELSE q + 1

\* (usage / limit) * 100 as the fraction num/den, or None (metrics.py:121-127)
percent_of_limit(usage, limit) ==
    IF Truthy(limit) /\ limit[1] > 0
    THEN Some([num |-> usage * 100, den |-> limit[1]])
    ELSE None

\* round(percent, 1) if percent else None, in tenths of a percent (metrics.py:133,138)
rounded_percent(percent) ==
    IF percent # None /\ percent[1].num # 0
    THEN Some(RoundHalfEven(percent[1].num * 10, percent[1].den))
    ELSE None

ResourceUsage(d, pod) ==
    LET cpu_usage == GetOr(d.cpu_results[pod], 0)
        memory_usage == GetOr(d.memory_results[pod], 0)
        cpu_limit == Lookup(d.cpu_limits, pod)
        memory_limit == Lookup(d.memory_limits, pod)
        cpu_percent == percent_of_limit(cpu_usage, cpu_limit)
        memory_percent == percent_of_limit(memory_usage, memory_limit)
    IN [pod_name |-> pod,
        cpu_usage_cores |-> cpu_usage,
        cpu_usage_percent |-> rounded_percent(cpu_percent),
        cpu_limit_cores |-> IF Truthy(cpu_limit) THEN cpu_limit ELSE None,
        memory_usage_bytes |-> memory_usage,
        memory_usage_percent |-> rounded_percent(memory_percent),
        memory_limit_bytes |-> IF Truthy(memory_limit) THEN memory_limit ELSE None]

\* ResourceUsage.is_cpu_throttled / is_memory_pressure (models/metrics.py:53-65)
is_cpu_throttled(u) == u.cpu_usage_percent # None /\ u.cpu_usage_percent[1] >= 900
is_memory_pressure(u) == u.memory_usage_percent # None /\ u.memory_usage_percent[1] >= 800

\* pods_data: the pods with a CPU row or a memory row
get_current_resource_usage_result(d) ==
    LET pods_data == {p \in Pods : d.cpu_results[p] # None \/ d.memory_results[p] # None}
        usage == [p \in pods_data |-> ResourceUsage(d, p)]
    IN [usage |-> usage,
        pod_count |-> Cardinality(pods_data),
        cpu_alerts |-> {p \in pods_data : is_cpu_throttled(usage[p])},
        memory_alerts |-> {p \in pods_data : is_memory_pressure(usage[p])}]

PureInit(inputs) ==
    /\ pc = "input"
    /\ data \in inputs
    /\ out = <<>>
    /\ tool = "none"
    /\ inp = Default
    /\ step = 0
    /\ calls = <<>>
    /\ start_time = 0
    /\ body_start = 0
    /\ now = 0
    /\ result = NoEnv
    /\ raised = NoExc
    /\ env = NoEnv
    /\ escaped = FALSE
    /\ _memory_holder = <<>>
    /\ requests = <<>>

PureApply(value) ==
    /\ pc = "input"
    /\ pc' = "applied"
    /\ out' = value
    /\ UNCHANGED <<_memory_holder, requests, tool, inp, step, calls, start_time, body_start, now, result, raised,
                   env, escaped, data>>

InitUsage == PureInit(UsageData)
ComputeUsage == PureApply(get_current_resource_usage_result(data))
SpecUsage == InitUsage /\ [][ComputeUsage]_vars

---------------------------------------------------------------------------
(* get_resource_trends: spike detection (metrics.py:397-401, 445-448, 464-465) *)

MaxSeriesLen == 7
StepSeconds == 15

SampleValues == {"NaN", "1", "10"}

\* float(v[1]) for the value strings of the model
Float(s) == CASE s = "1" -> 1 [] s = "10" -> 10

\* results[0]["values"]: [timestamp, value-string] pairs in time order
SeriesOf(vals) == [j \in 1..Len(vals) |-> <<j * StepSeconds, vals[j]>>]

TrendData ==
    UNION {{SeriesOf(vals) : vals \in [1..n -> SampleValues]} : n \in 0..MaxSeriesLen}

RECURSIVE SumSeq(_)
SumSeq(s) == IF s = <<>> THEN 0 ELSE s[1] + SumSeq(Tail(s))

IsNumeric(v) == v[2] # "NaN"

\* v > mean + 2*std_dev (population std_dev, np.std) over the integers:
\* n*v - S > 2*sqrt(n*Q - S^2)
ExceedsSpikeThreshold(v, values) ==
    LET n == Len(values)
        S == SumSeq(values)
        Q == SumSeq([j \in 1..n |-> values[j] * values[j]])
        d == n * v - S
    IN d > 0 /\ d * d > 4 * (n * Q - S * S)

\* faulty variant: the report keeps the last 10 spike times instead of the first 10
get_resource_trends_spikes_keeping_latest(series) ==
    LET numeric == SelectSeq(series, IsNumeric)
        values == [j \in 1..Len(numeric) |-> Float(numeric[j][2])]
        timestamps == [j \in 1..Len(series) |-> series[j][1]]
        spike_indices ==
            SelectSeq([j \in 1..Len(values) |-> j],
                      LAMBDA j : ExceedsSpikeThreshold(values[j], values))
        spike_times == [k \in 1..Len(spike_indices) |-> timestamps[spike_indices[k]]]
        n == Len(spike_times)
    IN IF Len(values) < 2
       THEN [trend |-> FALSE, spike_count |-> 0, spike_times |-> <<>>]
       ELSE [trend |-> TRUE, spike_count |-> n,
             spike_times |-> SubSeq(spike_times, n - Min(10, n) + 1, n)]

get_resource_trends_spikes(series) ==
    LET numeric == SelectSeq(series, IsNumeric)
        values == [j \in 1..Len(numeric) |-> Float(numeric[j][2])]
        timestamps == [j \in 1..Len(series) |-> series[j][1]]
        spike_indices ==
            SelectSeq([j \in 1..Len(values) |-> j],
                      LAMBDA j : ExceedsSpikeThreshold(values[j], values))
        in_range == SelectSeq(spike_indices, LAMBDA j : j <= Len(timestamps))
        spike_times == [k \in 1..Len(in_range) |-> timestamps[in_range[k]]]
    IN IF Len(values) < 2
       THEN [trend |-> FALSE, spike_count |-> 0, spike_times |-> <<>>]
       ELSE [trend |-> TRUE, spike_count |-> Len(spike_times),
             spike_times |-> SubSeq(spike_times, 1, Min(10, Len(spike_times)))]

InitTrend == PureInit(TrendData)
ComputeTrend == PureApply(get_resource_trends_spikes(data))
SpecTrend == InitTrend /\ [][ComputeTrend]_vars

---------------------------------------------------------------------------
(* get_resource_trends on series long enough to hold more than 10 spikes
   (metrics.py:445-465); a range query returns up to max_timeseries_points samples *)

MaxLongSeriesLen == 58

\* n samples of value 1, with m samples of value 10 every fifth position starting at
\* offset, and a NaN sample at position nan_at (0: none)
LongSeries(n, m, offset, nan_at) ==
    SeriesOf([j \in 1..n |->
                 IF j = nan_at THEN "NaN"
                 ELSE IF \E k \in 0..(m - 1) : j = offset + 5 * k THEN "10"
                 ELSE "1"])

LongTrendData ==
    {LongSeries(n, m, offset, nan_at) :
        n \in 56..MaxLongSeriesLen, m \in 9..11, offset \in 1..5, nan_at \in {0, 1, 56}}

InitTrendLong == PureInit(LongTrendData)
ComputeTrendLong == PureApply(get_resource_trends_spikes(data))
SpecTrendLong == InitTrendLong /\ [][ComputeTrendLong]_vars

---------------------------------------------------------------------------
(* get_resource_trends: trend direction (metrics.py:397-443), over the integers *)

MaxDirectionLen == 6

DirectionValues == {"NaN", "0", "1", "10"}

\* float(v[1]) for the value strings of this specification
FloatOf(s) == CASE s = "0" -> 0 [] s = "1" -> 1 [] s = "10" -> 10

DirectionData ==
    UNION {{SeriesOf(vals) : vals \in [1..n -> DirectionValues]} : n \in 0..MaxDirectionLen}

Abs(x) == IF x < 0 THEN -x ELSE x

\* cv > 0.5 with cv = std_dev / avg if avg > 0 else 0 (metrics.py:441-442):
\* S > 0 and 2*sqrt(n*Q - S^2) > S
IsVolatile(values) ==
    LET n == Len(values)
        S == SumSeq(values)
        Q == SumSeq([j \in 1..n |-> values[j] * values[j]])
    IN S > 0 /\ 4 * (n * Q - S * S) > S * S

\* the direction chosen at metrics.py:425-438 from the quarter means; the mean of an
\* empty first quarter is nan, which fails every comparison
base_direction(values) ==
    LET n == Len(values)
        q == n \div 4
        c == (n + 3) \div 4
        Sf == SumSeq(SubSeq(values, 1, q))
        Sl == SumSeq(SubSeq(values, n - c + 1, n))
        d == Sl * q - Sf * c
    IN IF q = 0 THEN "decreasing"
       ELSE IF Sf = 0 THEN (IF Sl = 0 THEN "stable" ELSE "increasing")
       ELSE IF 10 * Abs(d) < Abs(Sf * c) THEN "stable"
       ELSE IF (d > 0 /\ Sf > 0) \/ (d < 0 /\ Sf < 0) THEN "increasing"
       ELSE "decreasing"

\* faulty variant: the volatility check never overrides the direction
trend_direction_without_volatility(values) == base_direction(values)

trend_direction(values) ==
    IF IsVolatile(values) THEN "volatile" ELSE base_direction(values)

get_resource_trends_direction(series) ==
    LET numeric == SelectSeq(series, IsNumeric)
        values == [j \in 1..Len(numeric) |-> FloatOf(numeric[j][2])]
    IN IF Len(values) < 2
       THEN [trend |-> FALSE, trend_direction |-> "none"]
       ELSE [trend |-> TRUE, trend_direction |-> trend_direction(values)]

InitDirection == PureInit(DirectionData)
ComputeDirection == PureApply(get_resource_trends_direction(data))
SpecDirection == InitDirection /\ [][ComputeDirection]_vars

---------------------------------------------------------------------------
(* get_container_logs: line cap and truncation (health.py:399-464, base.py:81-97)
   for any requested tail_lines and any text the log read returns *)

MaxBackendLines == 8

LogsData ==
    {[Default EXCEPT !.tail_lines = t, !.log_lines = n] :
        t \in (-2)..(max_log_lines * 5 + 2), n \in 1..MaxBackendLines}

InitLogs == PureInit(LogsData)
ComputeLogs == PureApply(get_container_logs_return(data, 0, 1))
SpecLogs == InitLogs /\ [][ComputeLogs]_vars

---------------------------------------------------------------------------
(* get_recent_events: ordering, window filter and cap (health.py:244-332,
   kubernetes.py:278-318) *)

MaxEventList == 3

\* timestamps an event can carry; cutoff_time = now - window lies among them
EventTimes == {None, Some(1), Some(2), Some(3)}
Cutoffs == {1, 2}

\* the events in the order the API returns them; name identifies the event
EventsOf(raw) ==
    [j \in 1..Len(raw) |->
        [name |-> j, last_timestamp |-> raw[j][1], event_time |-> raw[j][2]]]

EventsData ==
    {[events |-> EventsOf(raw), cutoff_time |-> c] :
        raw \in UNION {[1..n -> EventTimes \X {None, Some(2)}] : n \in 0..MaxEventList},
        c \in Cutoffs}

\* e.last_timestamp or e.event_time or datetime.min (0 is before every timestamp)
SortKey(e) ==
    IF e.last_timestamp # None THEN e.last_timestamp[1]
    ELSE IF e.event_time # None THEN e.event_time[1]
    ELSE 0

\* e goes behind every element whose key is not smaller (a stable descending sort)
InsertDescending(sorted, e) ==
    LET ahead == {j \in DOMAIN sorted : SortKey(sorted[j]) >= SortKey(e)}
        k == Cardinality(ahead)
    IN SubSeq(sorted, 1, k) \o <<e>> \o SubSeq(sorted, k + 1, Len(sorted))

RECURSIVE SortDescending(_)
SortDescending(events) ==
    IF events = <<>> THEN <<>>
    ELSE InsertDescending(SortDescending(SubSeq(events, 1, Len(events) - 1)),
                          events[Len(events)])

\* faulty variant: the events are returned in the order the API gave them
list_events_unsorted(items) == items

\* events.sort(key=..., reverse=True) (kubernetes.py:308-315)
list_events(items) == SortDescending(items)

\* event.last_timestamp or event.event_time, and its test against the cutoff
InWindow(e, cutoff_time) ==
    LET event_time == IF e.last_timestamp # None THEN e.last_timestamp
                      ELSE e.event_time
    IN event_time # None /\ event_time[1] >= cutoff_time

EventInfo(e, current) ==
    [name |-> e.name,
     last_seen |-> IF e.last_timestamp # None THEN e.last_timestamp[1]
                   ELSE IF e.event_time # None THEN e.event_time[1]
                   ELSE current]

get_recent_events_result(d) ==
    LET events == list_events(d.events)
        filtered_events == SelectSeq(events, LAMBDA e : InWindow(e, d.cutoff_time))
        truncated == Len(filtered_events) > max_events
        shown == SubSeq(filtered_events, 1, Min(max_events, Len(filtered_events)))
        event_infos == [j \in 1..Len(shown) |-> EventInfo(shown[j], 3)]
    IN ToolResponse(IF truncated THEN "partial" ELSE "success",
                    Some([events |-> event_infos, total_count |-> Len(event_infos),
                          truncated |-> truncated]),
                    IF truncated THEN <<"Results truncated">> ELSE <<>>,
                    add_execution_metadata(
                        Echo({"namespace", "severity", "time_window"}), 0, 1))

InitEvents == PureInit(EventsData)
ComputeEvents == PureApply(get_recent_events_result(data))
SpecEvents == InitEvents /\ [][ComputeEvents]_vars

---------------------------------------------------------------------------
(* compare_period_metrics: percent change and significance (analysis.py:389-447),
   over the rationals *)

MaxPeriodSamples == 2

\* the float values extract_values returns for a period (NaN already dropped)
PeriodValues == UNION {[1..n -> {0, 10, 11, 12}] : n \in 0..MaxPeriodSamples}

CompareData ==
    {[baseline_values |-> b, compare_values |-> c] : b, c \in PeriodValues}

\* percent_change as the fraction num/den (analysis.py:411-415); an average is
\* SumSeq(values) / Len(values)
percent_change(baseline_values, compare_values) ==
    LET Sb == SumSeq(baseline_values)
        nb == Len(baseline_values)
        Sc == SumSeq(compare_values)
        nc == Len(compare_values)
    IN IF Sb = 0
       THEN [num |-> IF Sc = 0 THEN 0 ELSE 100, den |-> 1]
       ELSE [num |-> (Sc * nb - Sb * nc) * 100, den |-> Sb * nc]

\* faulty variant: a change of exactly 10% counts as significant
is_significant_from_ten(change) == Abs(change.num) >= 10 * Abs(change.den)

\* abs(percent_change) > 10 (analysis.py:418)
is_significant(change) == Abs(change.num) > 10 * Abs(change.den)

compare_period_metrics_result(d) ==
    IF d.baseline_values = <<>> \/ d.compare_values = <<>>
    THEN ToolResponse_partial([comparison |-> None],
             <<"One or both periods have no data.">>,
             add_execution_metadata(EmptyDict, 0, 1))
    ELSE LET change == percent_change(d.baseline_values, d.compare_values)
         IN ToolResponse_success(
                [comparison |->
                    Some([exact_percent_change |-> change,
                          \* round(percent_change, 1), in tenths of a percent
                          percent_change |-> RoundHalfEven(change.num * 10, change.den),
                          is_significant |-> is_significant(change)])],
                add_execution_metadata(
                    Echo({"namespace", "deployment_name", "metric", "baseline_period",
                          "compare_period"}), 0, 1))

InitCompare == PureInit(CompareData)
ComputeCompare == PureApply(compare_period_metrics_result(data))
SpecCompare == InitCompare /\ [][ComputeCompare]_vars

---------------------------------------------------------------------------
(* get_namespace_summary: health score of one namespace (discovery.py:184-217),
   over the rationals *)

MaxPods == 3

Phases == {"Running", "Pending", "Failed"}

\* pod.status.container_statuses: None, or the containers' restart counts
ContainerStatuses ==
    {None, Some(<<>>), Some(<<0>>), Some(<<1>>), Some(<<25>>), Some(<<1, 1>>)}

PodsData ==
    UNION {[1..n -> [phase : Phases, container_statuses : ContainerStatuses]] :
              n \in 0..MaxPods}

running_pods(pods) == Cardinality({j \in DOMAIN pods : pods[j].phase = "Running"})

total_restarts(pods) ==
    SumSeq([j \in 1..Len(pods) |->
               IF pods[j].container_statuses # None
                  /\ pods[j].container_statuses[1] # <<>>
               THEN SumSeq(pods[j].container_statuses[1]) ELSE 0])

\* faulty variant: the penalty is subtracted without the floor at 0
health_score_without_floor(pods) ==
    IF Len(pods) > 0
    THEN [num |-> 20 * running_pods(pods) - Len(pods) * Min(20, total_restarts(pods)),
          den |-> 20 * Len(pods)]
    ELSE [num |-> 1, den |-> 1]

\* health_score as the fraction num/den: running_ratio = running_pods / len(pods),
\* restart_penalty = min(1.0, total_restarts * 0.05) = min(20, total_restarts) / 20
health_score(pods) ==
    IF Len(pods) > 0
    THEN LET diff == 20 * running_pods(pods) - Len(pods) * Min(20, total_restarts(pods))
         IN [num |-> IF diff > 0 THEN diff ELSE 0, den |-> 20 * Len(pods)]
    ELSE [num |-> 1, den |-> 1]

\* the NamespaceSummary fields computed from the pods; health_score is
\* round(health_score, 2), in hundredths
NamespaceSummary(pods) ==
    LET score == health_score(pods)
    IN [pod_count |-> Len(pods),
        running_pods |-> running_pods(pods),
        total_restarts |-> total_restarts(pods),
        health_score |-> RoundHalfEven(score.num * 100, score.den)]

InitHealth == PureInit(PodsData)
ComputeHealth == PureApply(NamespaceSummary(data))
SpecHealth == InitHealth /\ [][ComputeHealth]_vars

---------------------------------------------------------------------------
(* analyze_restart_patterns: restart rate and severity (analysis.py:106-142),
   over the rationals *)

MaxRestarts == 13

\* lookback_seconds as parse_duration returns it: "0h", "30m", "1h", "2h", "3h"
LookbackSeconds == {0, 1800, 3600, 7200, 10800}

RestartData ==
    {[total_restarts |-> t, lookback_seconds |-> sec] :
        t \in 0..MaxRestarts, sec \in LookbackSeconds}

\* restart_rate = total_restarts / hours if hours > 0 else 0, with hours =
\* lookback_seconds / 3600, as the fraction num/den
restart_rate(total, lookback_seconds) ==
    IF lookback_seconds > 0
    THEN [num |-> total * 3600, den |-> lookback_seconds]
    ELSE [num |-> 0, den |-> 1]

\* faulty variant: a rate of exactly 2 per hour is still medium
severity_medium_up_to_two(total, rate) ==
    IF total = 0 THEN "none"
    ELSE IF 2 * rate.num < rate.den THEN "low"
    ELSE IF rate.num <= 2 * rate.den THEN "medium"
    ELSE IF rate.num < 6 * rate.den THEN "high"
    ELSE "critical"

severity(total, rate) ==
    IF total = 0 THEN "none"
    ELSE IF 2 * rate.num < rate.den THEN "low"
    ELSE IF rate.num < 2 * rate.den THEN "medium"
    ELSE IF rate.num < 6 * rate.den THEN "high"
    ELSE "critical"

analyze_restart_patterns_severity(d) ==
    LET rate == restart_rate(d.total_restarts, d.lookback_seconds)
    IN [total_restarts |-> d.total_restarts,
        restart_rate_per_hour |-> rate,
        severity |-> severity(d.total_restarts, rate)]

InitRestarts == PureInit(RestartData)
ComputeRestarts == PureApply(analyze_restart_patterns_severity(data))
SpecRestarts == InitRestarts /\ [][ComputeRestarts]_vars

---------------------------------------------------------------------------
(* parse_duration on arbitrary strings (base.py:100-126), and what a tool that
   parses its duration argument returns when the parse raises (base.py:71-76) *)

MaxDurationLen == 4

DurationChars == {" ", "-", "0", "2", "3", ".", "s", "m", "h", "H", "d", "x"}

DurationData == UNION {[1..n -> DurationChars] : n \in 0..MaxDurationLen}

\* window_seconds = parse_duration(time_window) inside a wrapped tool body
parse_duration_in_tool(duration) ==
    LET parsed == parse_duration(duration)
    IN [parsed |-> parsed,
        envelope |-> IF parsed.ok THEN NoEnv
                     ELSE tool_handler_except(parsed.exc, 0, 1)]

InitDuration == PureInit(DurationData)
ComputeDuration == PureApply(parse_duration_in_tool(data))
SpecDuration == InitDuration /\ [][ComputeDuration]_vars

---------------------------------------------------------------------------
(* get_cluster_capacity: quantity parsing and totals (discovery.py:276-367).
   Python's integers are unbounded: a byte count is kept as its six base-1024
   digits, lowest first; a CPU amount is kept in thousandths of a core *)

MaxCapacityNodes == 2

Radix == 1024

RECURSIVE Carry(_, _)
Carry(digits, c) ==
    IF digits = <<>> THEN <<>>
    ELSE <<(digits[1] + c) % Radix>> \o Carry(Tail(digits), (digits[1] + c) \div Radix)

BigZero == <<0, 0, 0, 0, 0, 0>>
BigAdd(a, b) == Carry([j \in 1..6 |-> a[j] + b[j]], 0)
\* n * 1024^k
BigScaled(n, k) == Carry([j \in 1..6 |-> IF j = k + 1 THEN n ELSE 0], 0)

RECURSIVE BigSum(_)
BigSum(s) == IF s = <<>> THEN BigZero ELSE BigAdd(s[1], BigSum(Tail(s)))

\* node.status.capacity / allocatable values, as the characters of the string
CpuQuantities == {<<"4">>, <<"1", "0", "0", "0", "m">>, <<"2", "5", "0", "m">>}
MemoryQuantities ==
    {<<"5", "1", "2", "M", "i">>, <<"2", "G", "i">>, <<"1", "K", "i">>, <<"1", "T", "i">>,
     <<"1", "0", "2", "4">>, <<"1", "2", "8", "M">>}
Allocatables ==
    {[cpu |-> <<"2", "5", "0", "m">>, memory |-> <<"5", "1", "2", "M", "i">>],
     [cpu |-> <<"4">>, memory |-> <<"2", "G", "i">>]}

NodesData ==
    UNION {[1..n -> [capacity : [cpu : CpuQuantities, memory : MemoryQuantities],
                     allocatable : Allocatables]] : n \in 0..MaxCapacityNodes}

endswith(val, suffix) ==
    Len(val) >= Len(suffix)
    /\ SubSeq(val, Len(val) - Len(suffix) + 1, Len(val)) = suffix

\* float(val[:-1]) / 1000 or float(val), in thousandths of a core; on these strings
\* float() accepts what int() accepts
parse_cpu(val) ==
    IF endswith(val, <<"m">>)
    THEN LET n == PyInt(SubSeq(val, 1, Len(val) - 1))
         IN [ok |-> n.ok, value |-> n.value]
    ELSE LET n == PyInt(val) IN [ok |-> n.ok, value |-> n.value * 1000]

\* the power of 1024 a memory suffix stands for
MemoryPower(val) ==
    IF endswith(val, <<"K", "i">>) THEN 1
    ELSE IF endswith(val, <<"M", "i">>) THEN 2
    ELSE IF endswith(val, <<"G", "i">>) THEN 3
    ELSE IF endswith(val, <<"T", "i">>) THEN 4
    ELSE 0

\* faulty variant: Gi is multiplied as Mi
parse_memory_gi_as_mi(val) ==
    LET v == strip(val)
        k == MemoryPower(v)
        n == PyInt(IF k = 0 THEN v ELSE SubSeq(v, 1, Len(v) - 2))
    IN [ok |-> n.ok,
        value |-> IF n.ok THEN BigScaled(n.value, IF k = 3 THEN 2 ELSE k) ELSE BigZero]

parse_memory(val) ==
    LET v == strip(val)
        k == MemoryPower(v)
        n == PyInt(IF k = 0 THEN v ELSE SubSeq(v, 1, Len(v) - 2))
    IN [ok |-> n.ok, value |-> IF n.ok THEN BigScaled(n.value, k) ELSE BigZero]

\* f"{total_cpu:.1f}", in tenths of a core
format_cpu_total(thousandths) == RoundHalfEven(thousandths, 100)

\* f"{b / (1024**3):.2f}Gi", in hundredths of a Gi: the part below 1 Gi is
\* low / 2^30 with low = a * 2^15 + b
format_memory(b) ==
    LET low == b[1] + Radix * b[2] + Radix * Radix * b[3]
        half == 32768
        x == 100 * (low \div half) + (100 * (low % half)) \div half
        r == (100 * (low % half)) % half
        whole == x \div half
        rest == (x % half) * half + r
    IN 100 * (b[4] + Radix * b[5]) + whole
       + (IF 2 * rest > half * half \/ (2 * rest = half * half /\ whole % 2 = 1)
          THEN 1 ELSE 0)

get_cluster_capacity_totals(nodes) ==
    LET cpu_cap == [j \in 1..Len(nodes) |-> parse_cpu(nodes[j].capacity.cpu)]
        mem_cap == [j \in 1..Len(nodes) |-> parse_memory(nodes[j].capacity.memory)]
        cpu_alloc == [j \in 1..Len(nodes) |-> parse_cpu(nodes[j].allocatable.cpu)]
        mem_alloc == [j \in 1..Len(nodes) |-> parse_memory(nodes[j].allocatable.memory)]
        total_cpu == SumSeq([j \in 1..Len(nodes) |-> cpu_cap[j].value])
        total_memory == BigSum([j \in 1..Len(nodes) |-> mem_cap[j].value])
        allocatable_cpu == SumSeq([j \in 1..Len(nodes) |-> cpu_alloc[j].value])
        allocatable_memory == BigSum([j \in 1..Len(nodes) |-> mem_alloc[j].value])
    IN IF \A j \in 1..Len(nodes) :
             cpu_cap[j].ok /\ mem_cap[j].ok /\ cpu_alloc[j].ok /\ mem_alloc[j].ok
       THEN [ok |-> TRUE,
             node_count |-> Len(nodes),
             parsed_cpu |-> [j \in 1..Len(nodes) |-> cpu_cap[j].value],
             parsed_memory |-> [j \in 1..Len(nodes) |-> mem_cap[j].value],
             sum_cpu |-> total_cpu,
             sum_memory |-> total_memory,
             sum_allocatable_cpu |-> allocatable_cpu,
             sum_allocatable_memory |-> allocatable_memory,
             total_cpu |-> format_cpu_total(total_cpu),
             total_memory |-> format_memory(total_memory),
             allocatable_cpu |-> format_cpu_total(allocatable_cpu),
             allocatable_memory |-> format_memory(allocatable_memory)]
       ELSE [ok |-> FALSE, node_count |-> Len(nodes)]

InitCapacity == PureInit(NodesData)
ComputeCapacity == PureApply(get_cluster_capacity_totals(data))
SpecCapacity == InitCapacity /\ [][ComputeCapacity]_vars

---------------------------------------------------------------------------
(* analyze_restart_patterns: restart times and pattern (analysis.py:77-130, 161-168).
   Times are whole minutes; every comparison of the pattern test is invariant under
   the change of unit *)

MaxShortTimes == 4
MaxRestartTime == 4
MaxLongTimes == 22
restart_times_cap == 20

\* finished_at of the last terminated state of each container status, in the order the
\* pods and their statuses are walked; None where there is no such state or time
ShortFinished ==
    UNION {[1..n -> {None} \cup {Some(t) : t \in 0..MaxRestartTime}] : n \in 0..MaxShortTimes}

\* n distinct times in a scrambled order, with no time at position none_at (0: all)
LongFinished(n, a, none_at) ==
    [j \in 1..n |-> IF j = none_at THEN None ELSE Some((j * a) % (n + 1))]

\* five restarts in reverse order of time, the intervals being a, 4, 4, b
DriftFinished(a, b) ==
    <<Some(a + 8 + b), Some(a + 8), Some(a + 4), Some(a), Some(0)>>

PatternData ==
    {[finished |-> f, cutoff_time |-> c] : f \in ShortFinished, c \in {0, 2}}
    \cup {[finished |-> DriftFinished(a, b), cutoff_time |-> 0] : a \in 3..5, b \in 2..4}
    \cup {[finished |-> LongFinished(n, a, p), cutoff_time |-> c] :
             n \in 21..MaxLongTimes, a \in {1, 3, 5}, p \in {0, 4}, c \in {0, 2}}

\* restart_times after the loop over pods (analysis.py:85-101)
collect_restart_times(d) ==
    LET kept == SelectSeq(d.finished, LAMBDA f : f # None /\ f[1] >= d.cutoff_time)
    IN [j \in 1..Len(kept) |-> kept[j][1]]

InsertAscending(sorted, t) ==
    LET k == Cardinality({j \in DOMAIN sorted : sorted[j] <= t})
    IN SubSeq(sorted, 1, k) \o <<t>> \o SubSeq(sorted, k + 1, Len(sorted))

RECURSIVE SortAscending(_)
SortAscending(times) ==
    IF times = <<>> THEN <<>>
    ELSE InsertAscending(SortAscending(SubSeq(times, 1, Len(times) - 1)), times[Len(times)])

\* faulty variant: the escalation test comes before the periodicity test
classify_intervals_escalating_first(intervals) ==
    LET k == Len(intervals)
        S == SumSeq(intervals)
        Q == SumSeq([j \in 1..k |-> intervals[j] * intervals[j]])
    IN IF 2 * intervals[k] < intervals[1] THEN "escalating"
       ELSE IF 100 * (k * Q - S * S) < 9 * S * S THEN "periodic"
       ELSE "random"

\* analysis.py:121-130: std < mean * 0.3 with std = sqrt(k*Q - S^2) / k and
\* mean = S / k, then intervals[-1] < intervals[0] * 0.5
classify_intervals(intervals) ==
    LET k == Len(intervals)
        S == SumSeq(intervals)
        Q == SumSeq([j \in 1..k |-> intervals[j] * intervals[j]])
    IN IF 100 * (k * Q - S * S) < 9 * S * S THEN "periodic"
       ELSE IF 2 * intervals[k] < intervals[1] THEN "escalating"
       ELSE "random"

analyze_restart_patterns_pattern(d) ==
    LET collected == collect_restart_times(d)
        n == Len(collected)
        restart_times == IF n >= 3 THEN SortAscending(collected) ELSE collected
        intervals == [j \in 1..(n - 1) |-> restart_times[j + 1] - restart_times[j]]
    IN [restart_times |->
            SubSeq(restart_times, Max(1, n - restart_times_cap + 1), n),
        pattern_detected |-> IF n >= 4 THEN classify_intervals(intervals) ELSE "none",
        mean_interval_minutes |->
            IF n >= 4 /\ classify_intervals(intervals) = "periodic"
            THEN Some(RoundHalfEven(SumSeq(intervals), n - 1))
            ELSE None]

InitPattern == PureInit(PatternData)
ComputePattern == PureApply(analyze_restart_patterns_pattern(data))
SpecPattern == InitPattern /\ [][ComputePattern]_vars

---------------------------------------------------------------------------
(* get_deployment_history: the history list and the current revision
   (analysis.py:232-282) *)

MaxReplicaSets == 3

\* the revision annotation, status.replicas and the creation time of a replica set
ReplicaSets ==
    {[revision_str |-> a, replicas |-> r, creation_timestamp |-> c] :
        a \in {None, Some(<<"1">>), Some(<<"2">>), Some(<<"1", "0">>)},
        r \in {0, 2}, c \in {0, 1}}

\* what list_replica_sets returns, and now - lookback_days on the same clock
HistoryData ==
    {[replica_sets |-> rs, cutoff_time |-> 1] :
        rs \in UNION {[1..n -> ReplicaSets] : n \in 0..MaxReplicaSets}}

\* list.sort(key=..., reverse=True): e goes behind every element whose key is not smaller
InsertByKey(sorted, e, key) ==
    LET k == Cardinality({j \in DOMAIN sorted : sorted[j][key] >= e[key]})
    IN SubSeq(sorted, 1, k) \o <<e>> \o SubSeq(sorted, k + 1, Len(sorted))

RECURSIVE SortByKey(_, _)
SortByKey(items, key) ==
    IF items = <<>> THEN <<>>
    ELSE InsertByKey(SortByKey(SubSeq(items, 1, Len(items) - 1), key),
                     items[Len(items)], key)

\* (annotations or {}).get("deployment.kubernetes.io/revision", "0"), then int()
revision_of(rs) ==
    PyInt(IF rs.revision_str = None THEN <<"0">> ELSE rs.revision_str[1]).value

\* the loop of analysis.py:246-258 over the first j replica sets
RECURSIVE current_revision_after(_, _)
current_revision_after(filtered_rs, j) ==
    IF j = 0 THEN None
    ELSE LET before == current_revision_after(filtered_rs, j - 1)
             rs == filtered_rs[j]
             revision == revision_of(rs)
         IN IF rs.replicas > 0 /\ (before = None \/ revision > before[1])
            THEN Some(revision)
            ELSE before

get_deployment_history_result(d) ==
    LET in_window == SelectSeq(d.replica_sets,
                               LAMBDA rs : rs.creation_timestamp >= d.cutoff_time)
        filtered_rs == SortByKey(in_window, "creation_timestamp")
        history == [j \in 1..Len(filtered_rs) |->
                       [revision |-> revision_of(filtered_rs[j]),
                        created_at |-> filtered_rs[j].creation_timestamp]]
    IN [history |-> SortByKey(history, "revision"),
        current_revision |-> current_revision_after(filtered_rs, Len(filtered_rs)),
        total_revisions |-> Len(history)]

InitHistory == PureInit(HistoryData)
ComputeHistory == PureApply(get_deployment_history_result(data))
SpecHistory == InitHistory /\ [][ComputeHistory]_vars

---------------------------------------------------------------------------
(* get_anomaly_report: the scan of the namespaces (analysis.py:521-654) *)

\* restart counts of a pod's container statuses (None: no statuses) and its phase
ScanPod(restarts, phase) == [restart_counts |-> restarts, phase |-> phase]

ScanPodLists ==
    { <<ScanPod(Some(<<4>>), "Running")>>,
      <<ScanPod(Some(<<5>>), "Pending")>>,
      <<ScanPod(Some(<<3, 3>>), "Running")>>,
      <<ScanPod(Some(<<3, 4>>), "Running")>>,
      <<ScanPod(Some(<<9>>), "Succeeded")>>,
      <<ScanPod(Some(<<10>>), "Failed")>>,
      <<ScanPod(None, "Failed"), ScanPod(Some(<<2, 3>>), "Pending")>> }

\* what the ratio query of a namespace gives: None when prom.query raises, else the
\* value strings of the result vector, one per pod
RatioResults ==
    {None, Some(<<"80", "90.5">>), Some(<<"80.5", "90">>), Some(<<"NaN", "+Inf">>)}

\* the names k8s.list_namespaces returns, in two clusters
\* (as sequences of characters)
NamespaceNames(cluster) ==
    IF cluster = 1
    THEN <<<<"a", "p", "p">>, <<"w", "e", "b">>, <<"d", "b">>>>
    ELSE <<<<"k", "u", "b", "e", "-", "s", "y", "s", "t", "e", "m">>,
           <<"a", "p", "p">>, <<"d", "e", "f", "a", "u", "l", "t">>>>

\* str.startswith
startswith(s, prefix) == Len(s) >= Len(prefix) /\ SubSeq(s, 1, Len(prefix)) = prefix

\* namespace: the caller's argument (None: scan the cluster); given, it names the
\* cluster's first namespace
AnomalyData ==
    {[namespace |-> s[1], cluster |-> s[2], namespaces |-> nss] :
        s \in {<<FALSE, 1>>, <<FALSE, 2>>, <<TRUE, 2>>},
        nss \in UNION {[1..n -> [pods : ScanPodLists, memory : RatioResults]] :
                          n \in 1..MaxNamespaces}}

\* float(r["value"][1]) in tenths of a percent
usage_percent(v) ==
    CASE v = "80" -> [kind |-> "finite", tenths |-> 800]
      [] v = "80.5" -> [kind |-> "finite", tenths |-> 805]
      [] v = "90" -> [kind |-> "finite", tenths |-> 900]
      [] v = "90.5" -> [kind |-> "finite", tenths |-> 905]
      [] v = "+Inf" -> [kind |-> "inf", tenths |-> 0]
      [] v = "NaN" -> [kind |-> "nan", tenths |-> 0]

\* usage_percent > percent, false for nan
exceeds(u, percent) ==
    u.kind = "inf" \/ (u.kind = "finite" /\ u.tenths > 10 * percent)

AnomalyInfo(type, sev, ns, name) ==
    [anomaly_type |-> type, severity |-> sev, namespace |-> ns, resource_name |-> name]

\* faulty variant: high starts at 8 restarts
restart_severity_high_from_eight(restarts) ==
    IF restarts >= 10 THEN "critical"
    ELSE IF restarts >= 8 THEN "high"
    ELSE "medium"

\* analysis.py:550-556
restart_severity(restarts) ==
    IF restarts >= 10 THEN "critical"
    ELSE IF restarts >= 7 THEN "high"
    ELSE "medium"

\* Check 1 for the pod at position j (analysis.py:544-581)
restart_anomalies(ns, pods, j) ==
    LET counts == pods[j].restart_counts
    IN IF counts # None /\ counts[1] # <<>> /\ SumSeq(counts[1]) >= 5
       THEN <<AnomalyInfo("restart_pattern", restart_severity(SumSeq(counts[1])), ns,
                          <<"pod", j>>)>>
       ELSE <<>>

\* Check 2 for the pod at position j (analysis.py:584-597)
phase_anomalies(ns, pods, j) ==
    IF pods[j].phase \in {"Pending", "Failed"}
    THEN <<AnomalyInfo("pod_health", IF pods[j].phase = "Failed" THEN "high" ELSE "medium",
                       ns, <<"pod", j>>)>>
    ELSE <<>>

\* Check 3 for the result at position j (analysis.py:606-636)
memory_anomalies(ns, values, j) ==
    LET u == usage_percent(values[j])
    IN IF exceeds(u, 90)
       THEN <<AnomalyInfo("resource_exhaustion", "critical", ns, <<"pod", j>>)>>
       ELSE IF exceeds(u, 80)
       THEN <<AnomalyInfo("resource_exhaustion", "high", ns, <<"pod", j>>)>>
       ELSE <<>>

\* the concatenation of parts[1] ... parts[n]
RECURSIVE Concat(_, _)
Concat(parts, n) == IF n = 0 THEN <<>> ELSE Concat(parts, n - 1) \o parts[n]

\* faulty variant: a failing ratio query loses the anomalies of its namespace
namespace_anomalies_lost_on_failure(name, ns) ==
    IF ns.memory = None THEN <<>>
    ELSE Concat([j \in 1..Len(ns.pods) |-> restart_anomalies(name, ns.pods, j)], Len(ns.pods))
         \o Concat([j \in 1..Len(ns.pods) |-> phase_anomalies(name, ns.pods, j)], Len(ns.pods))
         \o Concat([j \in 1..Len(ns.memory[1]) |-> memory_anomalies(name, ns.memory[1], j)],
                   Len(ns.memory[1]))

\* one pass of the loop over namespaces (analysis.py:541-639); a failing query is
\* caught and leaves the list as it is
namespace_anomalies(name, ns) ==
    Concat([j \in 1..Len(ns.pods) |-> restart_anomalies(name, ns.pods, j)], Len(ns.pods))
    \o Concat([j \in 1..Len(ns.pods) |-> phase_anomalies(name, ns.pods, j)], Len(ns.pods))
    \o (IF ns.memory = None THEN <<>>
        ELSE Concat([j \in 1..Len(ns.memory[1]) |->
                        memory_anomalies(name, ns.memory[1], j)], Len(ns.memory[1])))

\* positions of the namespaces to analyze (analysis.py:527-539)
namespaces_to_analyze(d) ==
    LET names == NamespaceNames(d.cluster)
        all == [k \in 1..Len(d.namespaces) |-> k]
    IN IF d.namespace THEN <<1>>
       ELSE SelectSeq(all, LAMBDA k :
                /\ ~startswith(names[k], <<"k", "u", "b", "e", "-">>)
                /\ names[k] \notin {<<"d", "e", "f", "a", "u", "l", "t">>,
                                     <<"l", "o", "c", "a", "l", "-", "p", "a", "t", "h", "-", "s", "t", "o", "r", "a", "g", "e">>})

get_anomaly_report_return(d) ==
    LET names == NamespaceNames(d.cluster)
        scanned == namespaces_to_analyze(d)
        anomalies == Concat([k \in 1..Len(scanned) |->
                                namespace_anomalies(names[scanned[k]],
                                                    d.namespaces[scanned[k]])],
                            Len(scanned))
    IN ToolResponse_success(
           [anomalies |-> anomalies,
            total_count |-> Len(anomalies),
            critical_count |->
                Cardinality({j \in DOMAIN anomalies : anomalies[j].severity = "critical"})],
           Echo({"namespace", "lookback_period"}))

InitAnomaly == PureInit(AnomalyData)
ComputeAnomaly == PureApply(get_anomaly_report_return(data))
SpecAnomaly == InitAnomaly /\ [][ComputeAnomaly]_vars

---------------------------------------------------------------------------
(* query_metrics_timeseries: conversion of the range-query result
   (metrics.py:241-289), with a small max_timeseries_points *)

max_timeseries_points == 3

\* raw_results: no series, one series of up to MaxSeriesLen samples, or that series
\* followed by a second, short one
TimeseriesData ==
    LET series == UNION {{SeriesOf(vals) : vals \in [1..n -> {"NaN", "1"}]} :
                            n \in 0..MaxSeriesLen}
    IN {<<>>} \cup {<<v>> : v \in series}
       \cup {<<v, SeriesOf(<<"1", "NaN">>)>> : v \in series}

\* values[::step_size]
EveryNth(values, step_size) ==
    [j \in 1..((Len(values) + step_size - 1) \div step_size) |->
        values[(j - 1) * step_size + 1]]

\* faulty variant: the strided samples are not cut to max_points
limit_data_points_stride_only(values, max_points) ==
    IF Len(values) > max_points
    THEN EveryNth(values, Len(values) \div max_points)
    ELSE values

\* metrics.py:248-252
limit_data_points(values, max_points) ==
    IF Len(values) > max_points
    THEN LET strided == EveryNth(values, Len(values) \div max_points)
         IN SubSeq(strided, 1, Min(max_points, Len(strided)))
    ELSE values

\* metrics.py:254-260
TimeseriesDataPoint(v) ==
    [timestamp |-> v[1], value |-> IF v[2] # "NaN" THEN Float(v[2]) ELSE 0]

query_metrics_timeseries_result(raw_results) ==
    LET results ==
            [r \in 1..Len(raw_results) |->
                LET values == limit_data_points(raw_results[r], max_timeseries_points)
                IN [data_points |-> [j \in 1..Len(values) |-> TimeseriesDataPoint(values[j])]]]
    IN ToolResponse(IF results # <<>> THEN "success" ELSE "partial",
                    Some([results |-> results,
                          series_count |-> Len(results),
                          data_points_per_series |->
                              IF results # <<>> THEN Len(results[1].data_points) ELSE 0]),
                    IF results = <<>> THEN <<"Query returned no results">> ELSE <<>>,
                    Echo({"time_range", "step"}))

InitTimeseries == PureInit(TimeseriesData)
ComputeTimeseries == PureApply(query_metrics_timeseries_result(data))
SpecTimeseries == InitTimeseries /\ [][ComputeTimeseries]_vars

---------------------------------------------------------------------------
(* get_deployment_info: which deployments are listed, and healthy_count
   (discovery.py:60-122, models/kubernetes.py:112-115) *)

MaxDeployments == 2

\* metadata.name, metadata.namespace, spec.replicas and status.ready_replicas
Deployments ==
    [name : {"web", "api"}, namespace : {"a", "b"},
     replicas : {None, Some(1), Some(2)}, ready_replicas : {None, Some(1), Some(2)}]

\* the deployments of the cluster, no two with the same namespace and name
Clusters ==
    {c \in UNION {[1..n -> Deployments] : n \in 0..MaxDeployments} :
        \A j, k \in DOMAIN c :
            (c[j].name = c[k].name /\ c[j].namespace = c[k].namespace) => j = k}

DeploymentsData ==
    {[namespace |-> ns, deployment_name |-> dn, cluster |-> c] :
        ns \in {None, Some("a")}, dn \in {None, Some("web")}, c \in Clusters}

\* x or 0
OrZero(x) == IF x = None \/ x[1] = 0 THEN 0 ELSE x[1]

\* apps_v1.read_namespaced_deployment through K8sClient.get_deployment
read_deployment(cluster, namespace, name) ==
    LET found == SelectSeq(cluster, LAMBDA dep : dep.namespace = namespace /\ dep.name = name)
    IN IF found # <<>>
       THEN [ok |-> TRUE, exc |-> NoExc, items |-> found]
       ELSE [ok |-> FALSE, items |-> <<>>,
             exc |-> get_deployment([kind |-> "ApiException", status |-> 404,
                                     body |-> "none", errorType |-> "none"]).exc]

\* K8sClient.list_deployments(namespace=namespace) (kubernetes.py:102-112)
list_deployments(cluster, namespace) ==
    IF namespace # None
    THEN SelectSeq(cluster, LAMBDA dep : dep.namespace = namespace[1])
    ELSE cluster

\* faulty variant: a deployment counts as healthy only with more ready than desired
is_healthy_strict(info) == info.ready > info.desired

\* DeploymentInfo.is_healthy (models/kubernetes.py:112-115)
is_healthy(info) == info.ready >= info.desired

\* discovery.py:72-122 on the deployments fetched
get_deployment_info_success(deployments) ==
    LET deployment_infos ==
            [j \in 1..Len(deployments) |->
                [name |-> deployments[j].name,
                 namespace |-> deployments[j].namespace,
                 desired |-> OrZero(deployments[j].replicas),
                 ready |-> OrZero(deployments[j].ready_replicas)]]
    IN ToolResponse_success(
           [deployments |-> deployment_infos,
            total_count |-> Len(deployment_infos),
            healthy_count |->
                Cardinality({j \in DOMAIN deployment_infos : is_healthy(deployment_infos[j])})],
           Echo({"namespace", "deployment_name"}))

get_deployment_info_return(d) ==
    IF d.deployment_name # None /\ d.namespace # None
    THEN LET r == read_deployment(d.cluster, d.namespace[1], d.deployment_name[1])
         IN IF r.ok THEN get_deployment_info_success(r.items)
            ELSE tool_handler_except(r.exc, 0, 1)
    ELSE get_deployment_info_success(list_deployments(d.cluster, d.namespace))

InitDeployments == PureInit(DeploymentsData)
ComputeDeployments == PureApply(get_deployment_info_return(data))
SpecDeployments == InitDeployments /\ [][ComputeDeployments]_vars

---------------------------------------------------------------------------
(* get_pod_status: phase mapping, counts and summary (health.py:77-176) *)

\* pod.status.phase as the backend reports it, and the containers' restart counts
\* (None: no container statuses)
StatusPodsData ==
    UNION {[1..n -> [phase : {"Pending", "Running", "Succeeded", "Failed", "Evicted"},
                     container_statuses : {None, Some(<<0>>), Some(<<1, 2>>)}]] :
              n \in 0..MaxPods}

\* phase_map.get(pod.status.phase, PodPhase.UNKNOWN) (health.py:125-131)
phase_map(phase) ==
    IF phase \in {"Pending", "Running", "Succeeded", "Failed"} THEN phase ELSE "Unknown"

\* the loop over pod.status.container_statuses or [] (health.py:85-121)
pod_restarts(pod) ==
    IF pod.container_statuses = None THEN 0 ELSE SumSeq(pod.container_statuses[1])

\* health.py:160-173: the form of the summary line and the issues it lists
pod_status_summary(total, running, pending, failed, restarts) ==
    IF total = 0 THEN [form |-> "no pods", issues |-> <<>>]
    ELSE IF running = total /\ restarts = 0 THEN [form |-> "all healthy", issues |-> <<>>]
    ELSE [form |-> "issues",
          issues |-> (IF pending > 0 THEN <<"pending">> ELSE <<>>)
                     \o (IF failed > 0 THEN <<"failed">> ELSE <<>>)
                     \o (IF restarts > 0 THEN <<"total restarts">> ELSE <<>>)]

get_pod_status_result(pods) ==
    LET pod_infos == [j \in 1..Len(pods) |->
                         [phase |-> phase_map(pods[j].phase),
                          total_restart_count |-> pod_restarts(pods[j])]]
        count(phase) == Cardinality({j \in DOMAIN pod_infos : pod_infos[j].phase = phase})
        restarts == SumSeq([j \in 1..Len(pods) |-> pod_restarts(pods[j])])
    IN [pods |-> pod_infos,
        total_pods |-> Len(pod_infos),
        running |-> count("Running"),
        pending |-> count("Pending"),
        failed |-> count("Failed"),
        total_restarts |-> restarts,
        summary |-> pod_status_summary(Len(pod_infos), count("Running"), count("Pending"),
                                       count("Failed"), restarts)]

InitPodStatus == PureInit(StatusPodsData)
ComputePodStatus == PureApply(get_pod_status_result(data))
SpecPodStatus == InitPodStatus /\ [][ComputePodStatus]_vars

---------------------------------------------------------------------------
(* The stress service (application/backend/main.py). Its endpoints are plain `def`
   functions, which the framework runs on a pool of worker threads: requests
   interleave between statements, while list.clear() and list.append() are each
   one step *)

MaxRequests == 3

Endpoints == {"stress_memory", "stress_combined", "release_memory", "metrics_info"}

observer == <<pc, tool, inp, step, calls, start_time, body_start, now, result, raised,
              env, escaped, data, out>>

Waiting == [endpoint |-> "none", at |-> "waiting", status |-> "none", count |-> 0]

\* the first statement of each endpoint
Entry(endpoint) ==
    CASE endpoint = "stress_memory" -> "clear"
      [] endpoint = "stress_combined" -> "append"
      [] endpoint = "release_memory" -> "len"
      [] endpoint = "metrics_info" -> "info"

At(r, endpoint, label) ==
    requests[r].endpoint = endpoint /\ requests[r].at = label

Goto(r, label) == requests' = [requests EXCEPT ![r].at = label]

Respond(r, status, count) ==
    requests' = [requests EXCEPT ![r].at = "done", ![r].status = status, ![r].count = count]

InitStress ==
    /\ pc = "serving"
    /\ tool = "none"
    /\ inp = Default
    /\ step = 0
    /\ calls = <<>>
    /\ start_time = 0
    /\ body_start = 0
    /\ now = 0
    /\ result = NoEnv
    /\ raised = NoExc
    /\ env = NoEnv
    /\ escaped = FALSE
    /\ data = <<>>
    /\ out = <<>>
    /\ _memory_holder = <<>>
    /\ requests = [r \in 1..MaxRequests |-> Waiting]

\* a request reaches one of the endpoints and is handed to a worker thread
Arrive ==
    \E r \in 1..MaxRequests : \E endpoint \in Endpoints :
        /\ requests[r].at = "waiting"
        /\ \A q \in 1..(r - 1) : requests[q].at # "waiting"
        /\ requests' = [requests EXCEPT ![r].endpoint = endpoint, ![r].at = Entry(endpoint)]
        /\ UNCHANGED <<_memory_holder, observer>>

\* stress_memory: _memory_holder.clear() (main.py:90)
stress_memory_clear ==
    \E r \in 1..MaxRequests :
        /\ At(r, "stress_memory", "clear")
        /\ _memory_holder' = <<>>
        /\ Goto(r, "append")
        /\ UNCHANGED observer

\* stress_memory: the allocation, appended or failing with MemoryError (main.py:94-110)
stress_memory_append ==
    \E r \in 1..MaxRequests : \E allocated \in BOOLEAN :
        /\ At(r, "stress_memory", "append")
        /\ IF allocated
           THEN _memory_holder' = Append(_memory_holder, r) /\ Respond(r, "allocated", 0)
           ELSE UNCHANGED _memory_holder /\ Respond(r, "failed", 0)
        /\ UNCHANGED observer

\* stress_combined: the allocation, MemoryError being passed over (main.py:150-154)
stress_combined_append ==
    \E r \in 1..MaxRequests : \E allocated \in BOOLEAN :
        /\ At(r, "stress_combined", "append")
        /\ _memory_holder' = IF allocated THEN Append(_memory_holder, r) ELSE _memory_holder
        /\ Goto(r, "cpu")
        /\ UNCHANGED observer

\* stress_combined: the computation loop and the response (main.py:156-179)
stress_combined_cpu ==
    \E r \in 1..MaxRequests :
        /\ At(r, "stress_combined", "cpu")
        /\ Respond(r, "combined_stress", 0)
        /\ UNCHANGED <<_memory_holder, observer>>

\* release_memory: size_released = len(_memory_holder) (main.py:118)
release_memory_len ==
    \E r \in 1..MaxRequests :
        /\ At(r, "release_memory", "len")
        /\ requests' = [requests EXCEPT ![r].at = "clear", ![r].count = Len(_memory_holder)]
        /\ UNCHANGED <<_memory_holder, observer>>

\* release_memory: _memory_holder.clear() and the response (main.py:119-124)
release_memory_clear ==
    \E r \in 1..MaxRequests :
        /\ At(r, "release_memory", "clear")
        /\ _memory_holder' = <<>>
        /\ Respond(r, "released", requests[r].count)
        /\ UNCHANGED observer

\* metrics_info: memory_holder_allocations = len(_memory_holder) (main.py:182-197)
metrics_info ==
    \E r \in 1..MaxRequests :
        /\ At(r, "metrics_info", "info")
        /\ Respond(r, "info", Len(_memory_holder))
        /\ UNCHANGED <<_memory_holder, observer>>

NextStress ==
    \/ Arrive
    \/ stress_memory_clear
    \/ stress_memory_append
    \/ stress_combined_append
    \/ stress_combined_cpu
    \/ release_memory_len
    \/ release_memory_clear
    \/ metrics_info

SpecStress == InitStress /\ [][NextStress]_vars

---------------------------------------------------------------------------
(* Properties *)

Statuses == {"success", "partial", "error"}

Done == pc = "done"
LastCall == calls[Len(calls)]
SomeCallFailed == \E j \in DOMAIN calls : calls[j].failed
ErrorType == IF "error_type" \in DOMAIN env.metadata THEN env.metadata["error_type"] ELSE ""
ReachedCompute == step = Len(Program(tool, inp))

\* a failure the body of get_anomaly_report catches itself (analysis.py:592-636)
SwallowedFailure(c) ==
    tool = "get_anomaly_report" /\ c.client = "prom" /\ c.op = "query" /\ c.failed

\* C1 as stated: every invocation ends with exactly one envelope and no escaped
\* exception, and whenever configuration loading, a client or the tool body raised
\* anything during the invocation, the envelope has status = error.
C1_AsStated ==
    Done => /\ ~escaped
            /\ env.status \in Statuses
            /\ (raised # NoExc \/ SomeCallFailed) => env.status = "error"

\* C1 amended: every invocation ends with exactly one envelope and no escaped
\* exception; every exception that leaves the tool body gives status = error; the
\* only raised failure that does not give status = error is a metrics query failure
\* caught inside get_anomaly_report.
C1_OneEnvelopeNoEscape ==
    Done => /\ ~escaped
            /\ env.status \in Statuses
            /\ raised # NoExc => env.status = "error"
            /\ raised = NoExc =>
                 \A j \in DOMAIN calls : calls[j].failed => SwallowedFailure(calls[j])

C1_Witness ==
    /\ Done
    /\ raised.type = "K8sClientError"
    /\ calls = <<>>
    /\ env.status = "error"
    /\ ~escaped

\* C2: every envelope a tool returns has an error message iff status = error, an
\* error envelope has no result, and warnings only accompany partial or error.
EnvelopeInvariant(e) ==
    /\ (e.error # None) <=> (e.status = "error")
    /\ e.status = "error" => e.result = None
    /\ e.warnings # <<>> => e.status \in {"partial", "error"}

C2_EnvelopeInvariant ==
    /\ (Done /\ ~escaped) => EnvelopeInvariant(env)
    /\ pc = "returned" => EnvelopeInvariant(result)

C2_Witness ==
    /\ Done
    /\ tool = "get_recent_events"
    /\ env.status = "partial"
    /\ env.warnings # <<>>
    /\ env.error = None

\* C3: when the cluster API answers a get or log read with HTTP 404 the envelope's
\* kind tag is NotFoundError; every other failure reported by the cluster API gives
\* KubernetesError.
ClusterApiFailed ==
    /\ calls # <<>>
    /\ LastCall.client = "k8s"
    /\ LastCall.failed
    /\ LastCall.raw.kind = "ApiException"

C4_AsStated ==
    (Done /\ raised.origin = "prom") =>
        ErrorType = IF Rejected(LastCall.raw) THEN "PrometheusQueryError"
                    ELSE "PrometheusError"

\* C5 as stated: the kind tag of every error envelope is one of a fixed set of coarse
\* kinds; a failure outside the four client kinds carries the one catch-all kind.
CoarseKinds ==
    {"NotFoundError", "KubernetesError", "PrometheusQueryError", "PrometheusError",
     "ValidationError", "MultipleContainersError", "UnexpectedError"}

C5_AsStated == (Done /\ env.status = "error") => ErrorType \in CoarseKinds

\* C5 amended: every error envelope carries exactly one kind tag: NotFoundError,
\* KubernetesError, PrometheusQueryError or PrometheusError for a failure of a client,
\* ValidationError or MultipleContainersError when the body rejects its arguments,
\* and for any other failure the name of the class of the exception that was raised.
C5_KindTag ==
    (Done /\ env.status = "error") =>
        /\ "error_type" \in DOMAIN env.metadata
        /\ IF raised = NoExc
           THEN ErrorType \in {"ValidationError", "MultipleContainersError"}
           ELSE ErrorType =
                  IF isinstance(raised, "K8sNotFoundError") THEN "NotFoundError"
                  ELSE IF isinstance(raised, "K8sClientError") THEN "KubernetesError"
                  ELSE IF isinstance(raised, "PrometheusQueryError")
                       THEN "PrometheusQueryError"
                  ELSE IF isinstance(raised, "PrometheusClientError")
                       THEN "PrometheusError"
                  ELSE raised.type

C5_Witness ==
    /\ Done
    /\ tool = "get_recent_events"
    /\ raised.type = "ValueError"
    /\ env.status = "error"
    /\ ErrorType = "ValueError"

\* C6: every returned envelope carries execution_time_ms and timestamp; metadata the
\* body built with them is left unchanged; an envelope built without them gets them
\* added with its own fields kept; the time is measured from the wrapper's start,
\* which precedes the body.
HasExecutionMetadata(m) == {"execution_time_ms", "timestamp"} \subseteq DOMAIN m

C6_ExecutionMetadata ==
    (Done /\ ~escaped) =>
        /\ HasExecutionMetadata(env.metadata)
        /\ start_time < body_start
        /\ (result.status # "none" /\ HasExecutionMetadata(result.metadata)) => env = result
        /\ (result.status # "none" /\ ~HasExecutionMetadata(result.metadata)) =>
             /\ \A k \in DOMAIN result.metadata : env.metadata[k] = result.metadata[k]
             /\ env.metadata["timestamp"] - env.metadata["execution_time_ms"] = start_time
        /\ raised # NoExc =>
             env.metadata["timestamp"] - env.metadata["execution_time_ms"] = start_time

C6_Witness ==
    /\ Done
    /\ result.status = "error"
    /\ DOMAIN result.metadata = {"error_type"}
    /\ DOMAIN env.metadata = {"error_type", "execution_time_ms", "timestamp"}
    /\ env.metadata["error_type"] = "ValidationError"

\* C7: a truncated event list, truncated logs, or a comparison period without data
\* give status = partial with a result, at least one warning and no error message.
EventsTruncated == tool = "get_recent_events" /\ inp.n_events > max_events
LogsTruncated ==
    tool = "get_container_logs"
    /\ inp.log_lines > Min(inp.tail_lines, max_log_lines * 5)
PeriodWithoutData ==
    tool = "compare_period_metrics" /\ (inp.baseline_n = 0 \/ inp.compare_n = 0)

C7_PartialNotError ==
    (Done /\ raised = NoExc /\ ReachedCompute
          /\ (EventsTruncated \/ LogsTruncated \/ PeriodWithoutData)) =>
        /\ env.status = "partial"
        /\ env.result # None
        /\ env.warnings # <<>>
        /\ env.error = None

C7_Witness ==
    /\ Done
    /\ PeriodWithoutData
    /\ inp.baseline_n = 1
    /\ ReachedCompute
    /\ env.status = "partial"

\* C8 as stated: no backend call is repeated after it fails; once a backend call
\* fails no further backend call is issued and the invocation ends with an error
\* envelope.
SameCall(a, b) == a.client = b.client /\ a.op = b.op /\ a.target = b.target

NoRetry ==
    \A j, k \in DOMAIN calls : (j < k /\ calls[j].failed) => ~SameCall(calls[j], calls[k])

C8_AsStated ==
    /\ NoRetry
    /\ \A j \in DOMAIN calls : calls[j].failed => j = Len(calls)
    /\ (Done /\ SomeCallFailed) => env.status = "error"

\* C8 amended: no backend call is repeated after it fails; every failed backend call
\* other than the per-namespace memory query of get_anomaly_report is the last call
\* of the invocation, which ends with an error envelope.
C8_FailFast ==
    /\ NoRetry
    /\ \A j \in DOMAIN calls :
         (calls[j].failed /\ ~SwallowedFailure(calls[j])) =>
             /\ j = Len(calls)
             /\ pc \in {"raised", "done"}
             /\ Done => env.status = "error"

C8_Witness ==
    /\ Done
    /\ tool = "get_current_resource_usage"
    /\ Len(calls) = 3
    /\ LastCall.failed
    /\ env.status = "error"

\* C9 as stated: a usage record's percent-of-limit is null exactly when the pod has
\* no limit (none reported, or zero), and otherwise is usage / limit x 100 (to the
\* one decimal reported), also when usage is 0.
NoLimit(limit) == limit = None \/ limit[1] = 0

\* tenths is p percent rounded to one decimal: |tenths/10 - 100*usage/limit| <= 0.05
IsPercentOf(tenths, usage, limit) ==
    LET diff == tenths * limit - 1000 * usage
    IN 2 * (IF diff < 0 THEN -diff ELSE diff) <= limit

PercentAsStated(percent, usage, limit) ==
    IF NoLimit(limit) THEN percent = None
    ELSE percent # None /\ IsPercentOf(percent[1], usage, limit[1])

C9_AsStated ==
    pc = "applied" =>
        \A p \in DOMAIN out.usage :
            /\ PercentAsStated(out.usage[p].cpu_usage_percent,
                               out.usage[p].cpu_usage_cores, data.cpu_limits[p])
            /\ PercentAsStated(out.usage[p].memory_usage_percent,
                               out.usage[p].memory_usage_bytes, data.memory_limits[p])

\* C10 as stated: with at least 2 numeric samples, spike_count is the number of
\* samples above mean + 2*stddev of the numeric samples, and every reported spike
\* time is the timestamp of such a sample.
NumericValues(series) ==
    LET numeric == SelectSeq(series, IsNumeric)
    IN [j \in 1..Len(numeric) |-> Float(numeric[j][2])]

IsSpikeSample(series, j) ==
    /\ IsNumeric(series[j])
    /\ ExceedsSpikeThreshold(Float(series[j][2]), NumericValues(series))

SpikeSamples(series) == {j \in DOMAIN series : IsSpikeSample(series, j)}

C10_AsStated ==
    (pc = "applied" /\ Len(NumericValues(data)) >= 2) =>
        /\ out.spike_count = Cardinality(SpikeSamples(data))
        /\ \A k \in DOMAIN out.spike_times :
             \E j \in SpikeSamples(data) : data[j][1] = out.spike_times[k]


\* C11 as stated: when more than 10 spikes are detected, spike_times are the 10
\* latest spike timestamps and spike_count is the total number of spikes.
WithoutNaN(series) == \A j \in DOMAIN series : IsNumeric(series[j])

SpikeTimesInOrder(series) ==
    LET spikes == SelectSeq(series,
                      LAMBDA v : IsNumeric(v) /\ ExceedsSpikeThreshold(Float(v[2]),
                                                     NumericValues(series)))
    IN [k \in 1..Len(spikes) |-> spikes[k][1]]

C11_AsStated ==
    (pc = "applied" /\ WithoutNaN(data) /\ out.spike_count > 10) =>
        LET all == SpikeTimesInOrder(data)
        IN /\ out.spike_count = Len(all)
           /\ out.spike_times = SubSeq(all, Len(all) - 9, Len(all))

\* C11 amended: for a series without NaN samples, spike_times are the first 10 spike
\* timestamps in time order (the 10 earliest) when more than 10 spikes are detected
\* and all of them otherwise, and spike_count is the total number of spikes.
C11_EarliestTen ==
    (pc = "applied" /\ WithoutNaN(data)) =>
        LET all == SpikeTimesInOrder(data)
        IN /\ out.spike_count = Len(all)
           /\ out.spike_times = SubSeq(all, 1, Min(10, Len(all)))

C11_Witness ==
    /\ pc = "applied"
    /\ WithoutNaN(data)
    /\ out.spike_count = 11
    /\ Len(out.spike_times) = 10
    /\ out.spike_times[1] = StepSeconds
    /\ out.spike_times[10] = 46 * StepSeconds


\* C12: every series with at least 2 samples whose coefficient of variation
\* (stddev / mean) exceeds 0.5 gets trend_direction volatile, whether the last-quarter
\* mean is above, below or equal to the first-quarter mean.
Mean2Less(values) ==
    \* 2 * stddev > mean > 0, i.e. stddev / mean > 0.5
    LET n == Len(values)
        S == SumSeq(values)
        SqDev == SumSeq([j \in 1..n |-> (n * values[j] - S) * (n * values[j] - S)])
    IN n > 0 /\ S > 0 /\ 4 * SqDev > n * S * S

SamplesOf(series) ==
    LET numeric == SelectSeq(series, IsNumeric)
    IN [j \in 1..Len(numeric) |-> FloatOf(numeric[j][2])]

C12_VolatileOverrides ==
    (pc = "applied" /\ Len(SamplesOf(data)) >= 2 /\ Mean2Less(SamplesOf(data))) =>
        out.trend_direction = "volatile"

C12_Witness ==
    /\ pc = "applied"
    /\ Len(data) = 5
    /\ WithoutNaN(data)
    /\ Mean2Less(SamplesOf(data))
    /\ data[1][2] = "1"
    /\ data[5][2] = "10"
    /\ out.trend_direction = "volatile"


\* C13: in get_container_logs without container_name, once the pod has been read: a
\* pod with exactly one container has its logs fetched for that container; a pod with
\* more than one container gives an error envelope of kind MultipleContainersError
\* whose message lists all the container names, and no log read is issued.
PodRead == \E j \in DOMAIN calls : calls[j].op = "get_pod" /\ ~calls[j].failed
LogReads == {j \in DOMAIN calls : calls[j].op = "get_pod_logs"}

C13_ContainerResolution ==
    (tool = "get_container_logs" /\ ~inp.container_name) =>
        /\ \A j \in LogReads : PodRead /\ inp.n_containers = 1 /\ calls[j].target = 1
        /\ (Done /\ PodRead /\ inp.n_containers = 1) =>
              /\ LogReads # {}
              /\ env.status # "error" =>
                    env.result[1].container_name = ContainerNames(1)[1]
        /\ (Done /\ PodRead /\ inp.n_containers > 1) =>
              /\ env.status = "error"
              /\ ErrorType = "MultipleContainersError"
              /\ \A c \in DOMAIN ContainerNames(inp.n_containers) :
                    \E k \in DOMAIN env.error[1] :
                        env.error[1][k] = ContainerNames(inp.n_containers)[c]
              /\ LogReads = {}

C13_Witness ==
    /\ Done
    /\ tool = "get_container_logs"
    /\ ~inp.container_name
    /\ inp.n_containers = 2
    /\ PodRead
    /\ ErrorType = "MultipleContainersError"
    /\ LogReads = {}


\* C14 as stated: for every tail_lines (0 and negative included) and every log text,
\* the returned logs have at most min(tail_lines, 5 x max_log_lines) lines; when
\* lines are dropped the kept ones are the last ones, truncated = true, status =
\* partial and a warning is attached; when none is dropped the text is unchanged and
\* status = success.
C14_AsStated ==
    pc = "applied" =>
        LET all == LogText(data.log_lines)
            kept == out.result[1].logs
            cap == Min(data.tail_lines, max_log_lines * 5)
        IN /\ Len(kept) <= cap
           /\ kept = SubSeq(all, Len(all) - Len(kept) + 1, Len(all))
           /\ Len(kept) < Len(all) =>
                /\ out.result[1].truncated
                /\ out.status = "partial"
                /\ out.warnings # <<>>
           /\ Len(kept) = Len(all) =>
                /\ kept = all
                /\ ~out.result[1].truncated
                /\ out.status = "success"


\* C15 as stated: the returned events are strictly descending by last-seen, all lie
\* within the window, and never number more than max_events; when more than
\* max_events match, the max_events most recent are kept with truncated = true,
\* status = partial and a warning; otherwise all matching events are returned with
\* truncated = false and status = success.
Matching(d) == {j \in DOMAIN d.events : InWindow(d.events[j], d.cutoff_time)}
Returned == {out.result[1].events[k].name : k \in DOMAIN out.result[1].events}

EventsCapAndWindow(d) ==
    LET shown == out.result[1].events
    IN /\ \A k \in DOMAIN shown : shown[k].last_seen >= d.cutoff_time
       /\ Len(shown) <= max_events
       /\ Returned \subseteq Matching(d)
       /\ Cardinality(Returned) = Len(shown)
       /\ IF Cardinality(Matching(d)) > max_events
          THEN /\ Len(shown) = max_events
               /\ \A k \in DOMAIN shown : \A j \in Matching(d) \ Returned :
                      shown[k].last_seen >= SortKey(d.events[j])
               /\ out.result[1].truncated
               /\ out.status = "partial"
               /\ out.warnings # <<>>
          ELSE /\ Returned = Matching(d)
               /\ ~out.result[1].truncated
               /\ out.status = "success"

C15_AsStated ==
    pc = "applied" =>
        /\ \A k \in 1..(Len(out.result[1].events) - 1) :
              out.result[1].events[k].last_seen > out.result[1].events[k + 1].last_seen
        /\ EventsCapAndWindow(data)

\* C15 amended: as stated, except that the order is descending but not strictly:
\* events with equal last-seen timestamps are both returned, next to each other.
C15_DescendingCapped ==
    pc = "applied" =>
        /\ \A k \in 1..(Len(out.result[1].events) - 1) :
              out.result[1].events[k].last_seen >= out.result[1].events[k + 1].last_seen
        /\ EventsCapAndWindow(data)

C15_Witness ==
    /\ pc = "applied"
    /\ Cardinality(Matching(data)) = 3
    /\ out.result[1].truncated
    /\ out.status = "partial"
    /\ Len(out.result[1].events) = 2
    /\ out.result[1].events[1].name = 2
    /\ out.result[1].events[2].name = 3
    /\ out.result[1].events[1].last_seen = 3
    /\ out.result[1].events[2].last_seen = 3


\* C16: when both periods have data, percent_change is 0 and is_significant false
\* when both means are zero, percent_change is 100 when only the baseline mean is
\* zero, otherwise it is (compare_avg - baseline_avg) / baseline_avg x 100 (reported
\* to one decimal), and is_significant holds exactly when |percent_change| > 10.
BothPeriodsHaveData == data.baseline_values # <<>> /\ data.compare_values # <<>>

\* num/den = (c_avg - b_avg) / b_avg * 100 with b_avg = Sb/nb, c_avg = Sc/nc
IsRelativeChange(num, den, Sb, nb, Sc, nc) ==
    num * (Sb * nc) = 100 * (Sc * nb - Sb * nc) * den

C16_PercentChange ==
    (pc = "applied" /\ BothPeriodsHaveData) =>
        LET Sb == SumSeq(data.baseline_values)
            Sc == SumSeq(data.compare_values)
            c == out.result[1].comparison[1]
            change == c.exact_percent_change
        IN /\ out.status = "success"
           /\ (Sb = 0 /\ Sc = 0) => (change.num = 0 /\ ~c.is_significant)
           /\ (Sb = 0 /\ Sc # 0) => change.num = 100 * change.den
           /\ Sb # 0 => IsRelativeChange(change.num, change.den,
                                         Sb, Len(data.baseline_values),
                                         Sc, Len(data.compare_values))
           /\ change.den > 0
           /\ c.is_significant <=> (Abs(change.num) > 10 * change.den)
           /\ 2 * Abs(c.percent_change * change.den - 10 * change.num) <= change.den

C16_Witness ==
    /\ pc = "applied"
    /\ data.baseline_values = <<10>>
    /\ data.compare_values = <<11>>
    /\ out.result[1].comparison[1].percent_change = 100
    /\ ~out.result[1].comparison[1].is_significant


\* C17: whatever the pod phases and restart counts, 0 <= health_score <= 1; a
\* namespace without pods scores exactly 1.0; a namespace with pods scores
\* max(0, running_pods / total_pods - min(1.0, 0.05 x total_restarts)), reported to
\* two decimals.
RunningCount(pods) == Cardinality({j \in DOMAIN pods : pods[j].phase = "Running"})

RestartCount(pods) ==
    SumSeq([j \in 1..Len(pods) |->
               IF pods[j].container_statuses = None THEN 0
               ELSE SumSeq(pods[j].container_statuses[1])])

\* hundredths is max(0, running/total - min(1, restarts/20)) to two decimals:
\* |hundredths/100 - value| <= 0.005, with value = max(0, raw / (20 * total))
IsHealthScore(hundredths, running, total, restarts) ==
    LET raw == 20 * running - total * (IF restarts < 20 THEN restarts ELSE 20)
        value == IF raw > 0 THEN raw ELSE 0
    IN 2 * Abs(hundredths * 20 * total - 100 * value) <= 20 * total

C17_HealthScore ==
    pc = "applied" =>
        /\ 0 <= out.health_score /\ out.health_score <= 100
        /\ data = <<>> => out.health_score = 100
        /\ data # <<>> =>
              IsHealthScore(out.health_score, RunningCount(data), Len(data),
                            RestartCount(data))

C17_Witness ==
    /\ pc = "applied"
    /\ Len(data) = 3
    /\ RunningCount(data) = 1
    /\ RestartCount(data) = 26
    /\ out.health_score = 0


\* C18: with restart_rate_per_hour = total_restarts / lookback_hours, severity is
\* none for 0 restarts, otherwise low for rate < 0.5, medium for 0.5 <= rate < 2,
\* high for 2 <= rate < 6 (exactly 2.0 is high) and critical for rate >= 6.
\* rate = restarts * 3600 / seconds, compared without division
SeverityOf(restarts, seconds) ==
    CASE restarts = 0 -> "none"
      [] restarts # 0 /\ 2 * 3600 * restarts < seconds -> "low"
      [] restarts # 0 /\ seconds <= 2 * 3600 * restarts
                      /\ 3600 * restarts < 2 * seconds -> "medium"
      [] restarts # 0 /\ 2 * seconds <= 3600 * restarts
                      /\ 3600 * restarts < 6 * seconds -> "high"
      [] restarts # 0 /\ 6 * seconds <= 3600 * restarts -> "critical"

C18_SeverityBoundaries ==
    (pc = "applied" /\ data.lookback_seconds > 0) =>
        /\ out.restart_rate_per_hour.num * data.lookback_seconds
              = data.total_restarts * 3600 * out.restart_rate_per_hour.den
        /\ out.severity = SeverityOf(data.total_restarts, data.lookback_seconds)

C18_Witness ==
    /\ pc = "applied"
    /\ data.total_restarts = 1
    /\ data.lookback_seconds = 1800
    /\ out.severity = "high"


\* C19: every string <non-negative integer><unit>, unit one of s, m, h, d in either
\* case and with surrounding whitespace ignored, parses to integer x 1, 60, 3600 or
\* 86400 seconds; every string with another suffix or with a prefix that is not an
\* integer fails, and the tool given it returns an error envelope.
Units == {"s", "m", "h", "d"}
SecondsPer(u) == CASE u = "s" -> 1 [] u = "m" -> 60 [] u = "h" -> 3600 [] u = "d" -> 86400

Trimmed(text) == strip(text)
Suffix(text) ==
    IF Trimmed(text) = <<>> THEN ""
    ELSE LET c == Trimmed(text)[Len(Trimmed(text))] IN IF c = "H" THEN "h" ELSE c
Prefix(text) == SubSeq(Trimmed(text), 1, Len(Trimmed(text)) - 1)

IsNumeral(p) == p # <<>> /\ \A j \in DOMAIN p : p[j] \in Digits

\* an integer in writing: digits, possibly signed, possibly set off by blanks
IsIntegerText(p) ==
    LET t == strip(p)
    IN IsNumeral(t) \/ (t # <<>> /\ t[1] \in {"+", "-"} /\ IsNumeral(Tail(t)))

C19_ParseDuration ==
    pc = "applied" =>
        /\ (Suffix(data) \in Units /\ IsNumeral(Prefix(data))) =>
              /\ out.parsed.ok
              /\ out.parsed.value = DigitsValue(Prefix(data)) * SecondsPer(Suffix(data))
        /\ (Suffix(data) \notin Units \/ ~IsIntegerText(Prefix(data))) =>
              /\ ~out.parsed.ok
              /\ out.envelope.status = "error"

C19_Witness ==
    /\ pc = "applied"
    /\ data = <<" ", "3", "0", "m">>
    /\ out.parsed.ok
    /\ out.parsed.value = 1800


\* C20: a memory quantity <n>Ki/Mi/Gi/Ti parses to n x 1024^1/2/3/4 bytes and one
\* without suffix to n bytes; a CPU quantity <n>m parses to n/1000 cores and one
\* without suffix to n cores; the cluster totals are the sums of the parsed
\* per-node values over all listed nodes (shown to 1 decimal core, 2 decimals Gi).
NumeralOf(q, suffix_len) == SubSeq(q, 1, Len(q) - suffix_len)

\* the byte count of a Ki/Mi/Gi/Ti or suffix-less quantity, as base-1024 digits
BytesOf(q) ==
    LET two == IF Len(q) >= 2 THEN SubSeq(q, Len(q) - 1, Len(q)) ELSE <<>>
    IN CASE two = <<"K", "i">> -> BigScaled(DigitsValue(NumeralOf(q, 2)), 1)
         [] two = <<"M", "i">> -> BigScaled(DigitsValue(NumeralOf(q, 2)), 2)
         [] two = <<"G", "i">> -> BigScaled(DigitsValue(NumeralOf(q, 2)), 3)
         [] two = <<"T", "i">> -> BigScaled(DigitsValue(NumeralOf(q, 2)), 4)
         [] OTHER -> BigScaled(DigitsValue(q), 0)

\* thousandths of a core of an <n>m or suffix-less quantity
MillicoresOf(q) ==
    IF q[Len(q)] = "m" THEN DigitsValue(NumeralOf(q, 1)) ELSE 1000 * DigitsValue(q)

CoveredMemory(q) ==
    \/ IsNumeral(q)
    \/ /\ Len(q) > 2
       /\ SubSeq(q, Len(q) - 1, Len(q)) \in
             {<<"K", "i">>, <<"M", "i">>, <<"G", "i">>, <<"T", "i">>}
       /\ IsNumeral(NumeralOf(q, 2))

AllCovered(nodes) == \A j \in DOMAIN nodes : CoveredMemory(nodes[j].capacity.memory)

RECURSIVE TotalBytes(_)
TotalBytes(nodes) ==
    IF nodes = <<>> THEN BigZero
    ELSE BigAdd(BytesOf(nodes[1].capacity.memory), TotalBytes(Tail(nodes)))

RECURSIVE TotalMillicores(_)
TotalMillicores(nodes) ==
    IF nodes = <<>> THEN 0
    ELSE MillicoresOf(nodes[1].capacity.cpu) + TotalMillicores(Tail(nodes))

\* shown is b / 1024^3 to two decimals, for b below 2^31:
\* |shown / 100 - b / 2^30| <= 1/200, with 2^30 = 4 * 16384 * 16384
IsGiOf(shown, b) ==
    LET units == b \div 16384
        rest == b % 16384
        whole == (25 * units) \div 16384
        scaled == ((25 * units) % 16384) * 16384 + 25 * rest
    \* 100 * b / 2^30 = 25 * b / 2^28 = whole + scaled / 2^28
    IN \/ shown = whole /\ 2 * scaled <= 16384 * 16384
       \/ shown = whole + 1 /\ 2 * scaled >= 16384 * 16384

C20_QuantityParsing ==
    (pc = "applied" /\ AllCovered(data)) =>
        /\ out.ok
        /\ \A j \in DOMAIN data :
              /\ out.parsed_memory[j] = BytesOf(data[j].capacity.memory)
              /\ out.parsed_cpu[j] = MillicoresOf(data[j].capacity.cpu)
        /\ out.sum_memory = TotalBytes(data)
        /\ out.sum_cpu = TotalMillicores(data)
        /\ 2 * Abs(out.total_cpu * 100 - TotalMillicores(data)) <= 100
        /\ (\A k \in 4..6 : out.sum_memory[k] = 0) =>
              IsGiOf(out.total_memory,
                     out.sum_memory[1] + 1024 * out.sum_memory[2]
                        + 1024 * 1024 * out.sum_memory[3])

C20_Witness ==
    /\ pc = "applied"
    /\ Len(data) = 2
    /\ data[1].capacity.memory = <<"5", "1", "2", "M", "i">>
    /\ data[2].capacity.memory = <<"2", "G", "i">>
    /\ data[1].capacity.cpu = <<"1", "0", "0", "0", "m">>
    /\ data[2].capacity.cpu = <<"2", "5", "0", "m">>
    /\ out.ok
    /\ out.parsed_memory[1][1] + 1024 * out.parsed_memory[1][2]
          + 1024 * 1024 * out.parsed_memory[1][3] = 536870912
    /\ out.parsed_memory[2] = <<0, 0, 0, 2, 0, 0>>
    /\ out.parsed_cpu[1] = 1000
    /\ out.sum_memory = <<0, 0, 512, 2, 0, 0>>
    /\ out.sum_cpu = 1250
    /\ out.total_memory = 250


\* C21: in get_resource_trends, fewer than 2 numeric samples give no trend; a series of
\* at least 2 numeric samples (of any length, 2 and 3 included) whose coefficient of
\* variation is at most 0.5 is stable exactly when the relative change from the
\* first-quarter mean to the last-quarter mean is below 10% in magnitude, increasing
\* when it is >= 10%, decreasing when it is <= -10%; a constant series is always stable.
IsConstant(values) == \A j \in 1..Len(values) : values[j] = values[1]

\* the direction the statement gives for a series that has a non-empty first quarter
\* with a positive mean: the sign and size of (last - first) / first
StatedDirection(values) ==
    LET n == Len(values)
        q == n \div 4
        c == (n + 3) \div 4
        Sf == SumSeq(SubSeq(values, 1, q))
        Sl == SumSeq(SubSeq(values, n - c + 1, n))
    IN IF 10 * Abs(Sl * q - Sf * c) < Sf * c THEN "stable"
       ELSE IF Sl * q > Sf * c THEN "increasing"
       ELSE "decreasing"

C21_AsStated ==
    pc = "applied" =>
        LET values == SamplesOf(data)
        IN /\ Len(values) < 2 => ~out.trend
           /\ (Len(values) >= 2 /\ ~Mean2Less(values)) =>
                 /\ out.trend
                 /\ IsConstant(values) => out.trend_direction = "stable"
                 /\ (Len(values) >= 4 /\ SumSeq(SubSeq(values, 1, Len(values) \div 4)) > 0) =>
                       out.trend_direction = StatedDirection(values)


\* C22: in analyze_restart_patterns, pattern_detected is none whenever fewer than 4
\* restart timestamps fall inside the lookback window; with 4 or more, the intervals of
\* the time-sorted timestamps are classified periodic if stddev < 0.3 x mean, else
\* escalating if the most recent interval is less than half the oldest, else random;
\* restart_times are the (at most 20) most recent timestamps in the window.
InWindowTimes(d) ==
    {j \in DOMAIN d.finished : d.finished[j] # None /\ d.finished[j][1] >= d.cutoff_time}

Occurrences(times, t) == Cardinality({j \in DOMAIN times : times[j] = t})

WindowOccurrences(d, t) == Cardinality({j \in InWindowTimes(d) : d.finished[j][1] = t})

\* the k-th smallest in-window timestamp, counted with repetitions
Ranked(d, k) ==
    CHOOSE t \in 0..(MaxLongTimes + 1) :
        /\ Cardinality({j \in InWindowTimes(d) : d.finished[j][1] < t}) < k
        /\ Cardinality({j \in InWindowTimes(d) : d.finished[j][1] <= t}) >= k

Gap(d, k) == Ranked(d, k + 1) - Ranked(d, k)

\* stddev(intervals) < 0.3 x mean(intervals), from the squared deviations
LowVariance(d) ==
    LET k == Cardinality(InWindowTimes(d)) - 1
        S == SumSeq([j \in 1..k |-> Gap(d, j)])
        SqDev == SumSeq([j \in 1..k |-> (k * Gap(d, j) - S) * (k * Gap(d, j) - S)])
    IN 100 * SqDev < 9 * k * S * S

StatedPattern(d) ==
    LET n == Cardinality(InWindowTimes(d))
    IN IF n < 4 THEN "none"
       ELSE IF LowVariance(d) THEN "periodic"
       ELSE IF 2 * Gap(d, n - 1) < Gap(d, 1) THEN "escalating"
       ELSE "random"

MostRecent(d, times) ==
    /\ Len(times) = Min(restart_times_cap, Cardinality(InWindowTimes(d)))
    /\ \A t \in 0..(MaxLongTimes + 1) :
          /\ Occurrences(times, t) <= WindowOccurrences(d, t)
          /\ Occurrences(times, t) < WindowOccurrences(d, t) =>
                \A j \in DOMAIN times : times[j] >= t

C22_PatternPrecedence ==
    pc = "applied" =>
        /\ out.pattern_detected = StatedPattern(data)
        /\ MostRecent(data, out.restart_times)

\* the last interval is under half the first, yet the intervals are even enough
C22_Witness ==
    /\ pc = "applied"
    /\ data.finished = DriftFinished(5, 2)
    /\ 2 * Gap(data, 4) < Gap(data, 1)
    /\ LowVariance(data)
    /\ out.pattern_detected = "periodic"
    /\ out.restart_times = <<0, 5, 9, 13, 15>>

\* more than 20 timestamps in the window, one before it, in a scrambled order
C22_WitnessCap ==
    /\ pc = "applied"
    /\ Len(data.finished) = 22
    /\ data.cutoff_time = 2
    /\ data.finished[1] = Some(3)
    /\ Cardinality(InWindowTimes(data)) = 21
    /\ Len(out.restart_times) = 20
    /\ out.restart_times[1] = 3
    /\ out.pattern_detected = "periodic"

\* the last interval is under half the first, and the intervals are far from even
C22_WitnessEscalating ==
    /\ pc = "applied"
    /\ data.finished = <<Some(4), Some(0), Some(3), Some(3)>>
    /\ out.pattern_detected = "escalating"


\* C23: in get_deployment_history, current_revision is the highest revision number
\* among the deployment's replica sets that have at least 1 live replica (null only if
\* no replica set of the deployment has a live replica), the history is sorted
\* descending by revision number, and a replica set without the revision annotation is
\* reported with revision 0.
RevisionNumber(rs) ==
    CASE rs.revision_str = None -> 0
      [] rs.revision_str = Some(<<"1">>) -> 1
      [] rs.revision_str = Some(<<"2">>) -> 2
      [] rs.revision_str = Some(<<"1", "0">>) -> 10

LiveRevisions(d) ==
    {RevisionNumber(d.replica_sets[j]) :
        j \in {i \in DOMAIN d.replica_sets : d.replica_sets[i].replicas >= 1}}

HistoryDescending(history) ==
    \A j \in 1..(Len(history) - 1) : history[j].revision >= history[j + 1].revision

C23_AsStated ==
    pc = "applied" =>
        /\ IF LiveRevisions(data) = {}
           THEN out.current_revision = None
           ELSE /\ out.current_revision # None
                /\ out.current_revision[1] \in LiveRevisions(data)
                /\ \A r \in LiveRevisions(data) : r <= out.current_revision[1]
        /\ HistoryDescending(out.history)


\* C24: compare_period_metrics and get_resource_trends validate the metric type before
\* touching the metrics backend: for a metric outside {cpu, memory, network_rx,
\* network_tx} the call returns an error envelope of kind ValidationError and issues
\* no query; for a valid metric, compare_period_metrics issues two range queries, the
\* baseline period first and the comparison period second (a failing query ends the
\* invocation, so a call that does not end in an error has issued both).
ValidMetrics == {"cpu", "memory", "network_rx", "network_tx"}

IsRangeQuery(c, period) == c.client = "prom" /\ c.op = "query_range" /\ c.target = period

C24_ValidateBeforeQuery ==
    /\ (tool \in {"compare_period_metrics", "get_resource_trends"}
          /\ inp.metric \notin ValidMetrics) =>
          /\ calls = <<>>
          /\ Done => (env.status = "error" /\ ErrorType = "ValidationError")
    /\ (tool = "compare_period_metrics" /\ inp.metric \in ValidMetrics) =>
          /\ Len(calls) <= 2
          /\ \A j \in DOMAIN calls : IsRangeQuery(calls[j], j)
          /\ \A j \in DOMAIN calls : calls[j].failed => j = Len(calls)
          /\ (Done /\ env.status # "error") => Len(calls) = 2

C24_Witness ==
    /\ Done
    /\ tool = "compare_period_metrics"
    /\ inp.metric = "network_rx"
    /\ Len(calls) = 2
    /\ IsRangeQuery(calls[1], 1)
    /\ IsRangeQuery(calls[2], 2)
    /\ env.status = "success"

C24_WitnessInvalid ==
    /\ Done
    /\ tool = "get_resource_trends"
    /\ inp.metric = "disk"
    /\ body_start > 0
    /\ calls = <<>>
    /\ ErrorType = "ValidationError"


\* C25: get_anomaly_report flags exactly, per namespace in scope: one restart_pattern
\* anomaly for each pod whose containers' restart counts sum to >= 5 (critical if >= 10,
\* high if >= 7, else medium); one pod_health anomaly for each pod in phase Failed (high)
\* or Pending (medium); one resource_exhaustion anomaly for each pod whose
\* memory-to-limit ratio is > 90% (critical) or > 80% and <= 90% (high); total_count is
\* the number of anomalies listed and critical_count the number of critical ones.
InScope(d) ==
    IF d.namespace THEN {1}
    ELSE {k \in DOMAIN d.namespaces :
             NamespaceNames(d.cluster)[k] \notin
                 {<<"k", "u", "b", "e", "-", "s", "y", "s", "t", "e", "m">>,
                  <<"d", "e", "f", "a", "u", "l", "t">>}}

Flagged(type, sev, d, k, j) ==
    [anomaly_type |-> type, severity |-> sev,
     namespace |-> NamespaceNames(d.cluster)[k], resource_name |-> <<"pod", j>>]

RestartSum(pod) ==
    IF pod.restart_counts = None THEN 0 ELSE SumSeq(pod.restart_counts[1])

RestartFlags(d, k) ==
    LET pods == d.namespaces[k].pods
    IN {Flagged("restart_pattern",
                IF RestartSum(pods[j]) >= 10 THEN "critical"
                ELSE IF RestartSum(pods[j]) >= 7 THEN "high" ELSE "medium",
                d, k, j) : j \in {i \in DOMAIN pods : RestartSum(pods[i]) >= 5}}

PhaseFlags(d, k) ==
    LET pods == d.namespaces[k].pods
    IN {Flagged("pod_health", "high", d, k, j) :
           j \in {i \in DOMAIN pods : pods[i].phase = "Failed"}}
       \cup {Flagged("pod_health", "medium", d, k, j) :
                j \in {i \in DOMAIN pods : pods[i].phase = "Pending"}}

\* the ratios of the value strings, as percentages
Above90 == {"90.5", "+Inf"}
Above80UpTo90 == {"80.5", "90"}

MemoryFlags(d, k) ==
    LET memory == d.namespaces[k].memory
    IN IF memory = None THEN {}
       ELSE {Flagged("resource_exhaustion", "critical", d, k, j) :
                j \in {i \in DOMAIN memory[1] : memory[1][i] \in Above90}}
            \cup {Flagged("resource_exhaustion", "high", d, k, j) :
                     j \in {i \in DOMAIN memory[1] : memory[1][i] \in Above80UpTo90}}

AllFlags(d) ==
    UNION {RestartFlags(d, k) \cup PhaseFlags(d, k) \cup MemoryFlags(d, k) : k \in InScope(d)}

Listed(envelope) == envelope.result[1].anomalies

C25_ExactlyFlagged ==
    pc = "applied" =>
        /\ {Listed(out)[j] : j \in DOMAIN Listed(out)} = AllFlags(data)
        /\ Len(Listed(out)) = Cardinality(AllFlags(data))
        /\ out.result[1].total_count = Len(Listed(out))
        /\ out.result[1].critical_count =
              Cardinality({a \in AllFlags(data) : a.severity = "critical"})

\* a cluster-wide scan that skips kube-system and flags, in the second namespace, a
\* failed pod with 10 restarts and an infinite ratio
C25_Witness ==
    /\ pc = "applied"
    /\ ~data.namespace
    /\ data.cluster = 2
    /\ Len(data.namespaces) = 2
    /\ data.namespaces[1].pods = <<ScanPod(Some(<<5>>), "Pending")>>
    /\ data.namespaces[2].pods = <<ScanPod(Some(<<10>>), "Failed")>>
    /\ data.namespaces[2].memory = Some(<<"NaN", "+Inf">>)
    /\ out.result[1].total_count = 3
    /\ out.result[1].critical_count = 2


\* C26: in get_anomaly_report, a failure of the ratio query for one namespace never
\* aborts the scan: the envelope is still status = success and holds every restart and
\* pod-phase anomaly of that namespace and every anomaly of the namespaces scanned
\* before and after it; only the memory anomalies of the failing namespace are missing.
QueryFailed(d, k) == k \in InScope(d) /\ d.namespaces[k].memory = None

ListedSet(envelope) == {Listed(envelope)[j] : j \in DOMAIN Listed(envelope)}

C26_FailureSwallowed ==
    (pc = "applied" /\ \E k \in DOMAIN data.namespaces : QueryFailed(data, k)) =>
        /\ out.status = "success"
        /\ out.error = None
        /\ \A k \in InScope(data) :
              /\ RestartFlags(data, k) \cup PhaseFlags(data, k) \subseteq ListedSet(out)
              /\ ~QueryFailed(data, k) => MemoryFlags(data, k) \subseteq ListedSet(out)
              /\ QueryFailed(data, k) =>
                    ~\E a \in ListedSet(out) :
                        /\ a.anomaly_type = "resource_exhaustion"
                        /\ a.namespace = NamespaceNames(data.cluster)[k]

\* the query of the first namespace fails; its two pod anomalies and the memory
\* anomalies of the namespace after it are reported
C26_Witness ==
    /\ pc = "applied"
    /\ ~data.namespace
    /\ data.cluster = 1
    /\ Len(data.namespaces) = 2
    /\ QueryFailed(data, 1)
    /\ data.namespaces[1].pods = <<ScanPod(Some(<<10>>), "Failed")>>
    /\ data.namespaces[2].memory = Some(<<"80.5", "90">>)
    /\ out.status = "success"
    /\ Cardinality({a \in ListedSet(out) : a.namespace = <<"a", "p", "p">>}) = 2
    /\ Cardinality({a \in ListedSet(out) : a.anomaly_type = "resource_exhaustion"}) = 2


\* C27: in query_metrics_timeseries every returned series has at most
\* max_timeseries_points data points; a longer backend series is down-sampled by a
\* uniform stride, the kept points being a subsequence of the original in the original
\* time order; every NaN sample is reported with value 0.0; a query with no result
\* series yields status = partial with a warning.
ReportedValue(v) == IF v = "NaN" THEN 0 ELSE 1

\* points are the samples 1, 1 + k, 1 + 2k, ... of the original series
StridedBy(points, original, k) ==
    /\ Len(points) > 0
    /\ \A j \in DOMAIN points :
          /\ 1 + (j - 1) * k <= Len(original)
          /\ points[j].timestamp = original[1 + (j - 1) * k][1]
          /\ points[j].value = ReportedValue(original[1 + (j - 1) * k][2])

C27_DownSampled ==
    pc = "applied" =>
        /\ (data = <<>>) => (out.status = "partial" /\ out.warnings # <<>>)
        /\ (data # <<>>) => out.status = "success"
        /\ Len(out.result[1].results) = Len(data)
        /\ \A r \in DOMAIN data :
              LET points == out.result[1].results[r].data_points
              IN /\ Len(points) <= max_timeseries_points
                 /\ IF Len(data[r]) > max_timeseries_points
                    THEN \E k \in 1..Len(data[r]) : StridedBy(points, data[r], k)
                    ELSE Len(points) = Len(data[r]) /\ (points = <<>> \/ StridedBy(points, data[r], 1))

\* seven samples, a stride of 2, the fourth strided sample cut off
C27_Witness ==
    /\ pc = "applied"
    /\ Len(data) = 2
    /\ Len(data[1]) = 7
    /\ data[1][3][2] = "NaN"
    /\ data[1][5][2] = "1"
    /\ Len(out.result[1].results[1].data_points) = 3
    /\ out.result[1].results[1].data_points[2].value = 0
    /\ out.result[1].results[1].data_points[3].timestamp = 5 * StepSeconds


\* C28: in get_deployment_info, whenever an exact deployment_name is supplied (with or
\* without a namespace) the result contains only deployments whose name equals
\* deployment_name, or the call returns a not-found error envelope when there is none;
\* the full list is returned only when no name is supplied; healthy_count is the number
\* of listed deployments with ready >= desired, absent replica counts taken as 0.
CountOrZero(x) == IF x = None THEN 0 ELSE x[1]

Named(d) ==
    {j \in DOMAIN d.cluster :
        /\ d.cluster[j].name = d.deployment_name[1]
        /\ d.namespace # None => d.cluster[j].namespace = d.namespace[1]}

C28_AsStated ==
    pc = "applied" =>
        /\ data.deployment_name # None =>
              IF Named(data) = {}
              THEN out.status = "error"
              ELSE /\ out.status = "success"
                   /\ \A j \in DOMAIN out.result[1].deployments :
                         out.result[1].deployments[j].name = data.deployment_name[1]
        /\ out.status = "success" =>
              out.result[1].healthy_count =
                  Cardinality({j \in DOMAIN out.result[1].deployments :
                                  out.result[1].deployments[j].ready
                                      >= out.result[1].deployments[j].desired})


\* C29: in get_pod_status, each pod's phase is mapped to Pending / Running / Succeeded /
\* Failed and any other backend phase to Unknown; running + pending + failed <=
\* total_pods; total_restarts is the sum of all containers' restart counts; the
\* summary is the all-healthy form exactly when there is at least one pod, every pod is
\* Running and total restarts is 0; otherwise, for a non-empty pod set, the summary
\* itemizes at least one issue (pending, failed or restarts).
ContainerRestarts(pods) ==
    SumSeq([j \in 1..Len(pods) |->
               IF pods[j].container_statuses = None THEN 0
               ELSE SumSeq(pods[j].container_statuses[1])])

AllHealthy(pods) ==
    /\ Len(pods) >= 1
    /\ \A j \in DOMAIN pods : pods[j].phase = "Running"
    /\ ContainerRestarts(pods) = 0

C29_AsStated ==
    pc = "applied" =>
        /\ \A j \in DOMAIN data :
              out.pods[j].phase =
                  (IF data[j].phase \in {"Pending", "Running", "Succeeded", "Failed"}
                   THEN data[j].phase ELSE "Unknown")
        /\ out.running + out.pending + out.failed <= out.total_pods
        /\ out.total_restarts = ContainerRestarts(data)
        /\ (out.summary.form = "all healthy") <=> AllHealthy(data)
        /\ (Len(data) >= 1 /\ ~AllHealthy(data)) => out.summary.issues # <<>>


\* C30: the stress service holds at most one memory allocation at a time: in every
\* state reachable by any sequence or interleaving of /stress/memory, /stress/combined
\* and /stress/memory/release requests the number of held allocations
\* (memory_holder_allocations of /metrics/info) is at most 1, and when a release
\* request completes with no allocating request in flight the number is 0.
Allocating(r) ==
    requests[r].endpoint \in {"stress_memory", "stress_combined"}
    /\ requests[r].at \notin {"waiting", "done"}

ReleaseCompletes ==
    \E r \in 1..MaxRequests :
        /\ requests[r].endpoint = "release_memory"
        /\ requests[r].at # "done"
        /\ requests'[r].at = "done"
        /\ \A q \in 1..MaxRequests : ~Allocating(q)

C30_AsStated ==
    /\ [](/\ Len(_memory_holder) <= 1
          /\ \A r \in 1..MaxRequests :
                requests[r].status = "info" => requests[r].count <= 1)
    /\ [][ReleaseCompletes => Len(_memory_holder') = 0]_vars

====
